---- MODULE Spec2Model ----
(***************************************************************************)
(* A model of the mWater sensor dashboard (run_sensor_dashboard_for_web.py *)
(* and create-sensor-dashboard.py).                                        *)
(*                                                                         *)
(* Part 1 models the Dash application as a state machine: the callbacks    *)
(* authenticate_user, navigate_to_dashboard and render_page, the           *)
(* per-browser-session props they read and write, and the files they read  *)
(* (the password configuration file and the data directory).               *)
(* Part 2 models the analytics (determine_season,                          *)
(* calculate_seasonal_averages) over a growing data frame.                 *)
(***************************************************************************)
EXTENDS Integers, Sequences, FiniteSets, TLC

(***************************************************************************)
(* State.                                                                  *)
(*                                                                         *)
(* Shared by the whole process: the two things on disk.                    *)
(*   configFile    dashboard-config.json as it is now                      *)
(*   startConfig   dashboard-config.json as it was when the process        *)
(*                 started (history: the code keeps no such copy)          *)
(*   dataDir       sensor id -> kind of its file in DATA_DIR               *)
(* Per browser session (a tab: dcc.Store with storage_type="session"):     *)
(*   auth_state    auth-state.data                                         *)
(*   pathname      url.pathname                                            *)
(*   page_content  page-content.children, the layout on screen             *)
(*   login_message login-message.children                                  *)
(*   dropdown      sensor-dropdown.value                                   *)
(*   n_clicks      login-button.n_clicks                                   *)
(*   pending       an Input of render_page changed and the callback has    *)
(*                 not run since                                           *)
(*   fault         the exception the session's last callback let escape    *)
(*   route         the layout render_page selected at its last run         *)
(*   last          history: the session's last event                       *)
(*   lost          history: the sensor view the session was at when its    *)
(*                 storage was last lost (NeverLost: it never was lost,    *)
(*                 LostElsewhere: it was at no sensor view)                *)
(*   actor         history: the session whose event or callback ran last,  *)
(*                 "disk" for an edit of a file                            *)
(*   debug         how the process was started: TRUE by running the module *)
(*                 (app.run_server(debug=True)), FALSE behind a WSGI       *)
(*                 server that imports the module's `server`               *)
(***************************************************************************)
VARIABLES configFile, startConfig, dataDir, debug, auth_state, pathname,
          page_content, login_message, dropdown, n_clicks, pending, fault,
          route, last, lost, actor

(***************************************************************************)
(* The state of the analytics: a sensor's file is read reading by reading. *)
(*   df                 the data frame load_data has built so far          *)
(*   seasonal_averages  calculate_seasonal_averages(df)                    *)
(*   next_day           the day of the reading that comes next             *)
(*   shape              how the file's readings lie on the calendar        *)
(***************************************************************************)
VARIABLES df, seasonal_averages, next_day, shape

(***************************************************************************)
(* The state of the loader: a sensor's file is written row by row and then *)
(* the dashboard is made of it.                                            *)
(*   csv_file   the file sensor-<id>-hourly-logs.csv: its columns and rows *)
(*   tzdata     the zone data the installed timezonefinder carries         *)
(*   dashboard  what create_dashboard made of the file, step by step       *)
(*   profile    how the readings of the file follow each other             *)
(***************************************************************************)
VARIABLES csv_file, tzdata, dashboard, profile

(***************************************************************************)
(* The state of the data directory as the fetcher fills it and the landing *)
(* page lists it.                                                          *)
(*   fetch       the run of get-charity-water-sensor-data-by-id.py: its    *)
(*               position, params["page"], all_logs and the API's pages    *)
(*   data_files  the names of the files in the data directory              *)
(*   landing     the sensors the landing page lists, and the directory as  *)
(*               it was when they were listed                              *)
(*   opened      the file that was opened by selecting a listed sensor     *)
(***************************************************************************)
VARIABLES fetch, data_files, landing, opened

seasonVars == <<df, seasonal_averages, next_day, shape>>
fileVars == <<csv_file, tzdata, dashboard, profile>>
fetchVars == <<fetch, data_files, landing, opened>>
analyticsVars == <<seasonVars, fileVars, fetchVars>>

sessionVars == <<auth_state, pathname, page_content, login_message, dropdown,
                 n_clicks, pending, fault, route, last, lost>>
diskVars == <<configFile, startConfig, dataDir, debug>>

Sessions == {"s1", "s2"}

\* The props of session s
SessionProps(s) ==
    <<auth_state[s], pathname[s], page_content[s], login_message[s],
      dropdown[s], n_clicks[s], pending[s], fault[s], route[s]>>

(***************************************************************************)
(* Python values.  A value is a record tagged with its Python type, so     *)
(* that values of different types can be compared as Python compares them. *)
(***************************************************************************)
None == [t |-> "none"]
PyStr(s) == [t |-> "str", v |-> s]
PyInt(n) == [t |-> "int", v |-> n]
PyList(q) == [t |-> "list", v |-> q]
PyDict(f) == [t |-> "dict", v |-> f]

\* Python's ==
PyEq(a, b) == a.t = b.t /\ (a.t = "none" \/ a.v = b.v)

\* Python's truth value of None, an int or a str
Truthy(x) ==
    CASE x.t = "none" -> FALSE
      [] x.t = "int" -> x.v # 0
      [] x.t = "str" -> x.v # ""
      [] OTHER -> TRUE

\* The characters of the strings that are tried as passwords or stored in the
\* configuration file (TLC's strings are atomic).
Chars(s) ==
    CASE s = "" -> << >>
      [] s = "a" -> <<"a">>
      [] s = "ab" -> <<"a", "b">>
      [] s = "zz" -> <<"z", "z">>

\* str.__contains__: a occurs in b as a contiguous run of characters
IsSubstring(a, b) ==
    LET ca == Chars(a)
        cb == Chars(b)
    IN \E i \in 0..(Len(cb) - Len(ca)) :
          \A k \in 1..Len(ca) : cb[i + k] = ca[k]

\* Python's `x in c`: "true", "false", or the exception it raises
PyIn(x, c) ==
    CASE c.t = "list" ->
            IF \E i \in 1..Len(c.v) : PyEq(c.v[i], x) THEN "true" ELSE "false"
      [] c.t = "str" ->
            IF x.t # "str" THEN "TypeError"
            ELSE IF IsSubstring(x.v, c.v) THEN "true" ELSE "false"
      [] c.t = "dict" ->
            IF x.t = "str" /\ x.v \in DOMAIN c.v THEN "true" ELSE "false"
      [] OTHER -> "TypeError"

(***************************************************************************)
(* The configuration file dashboard-config.json, as it is on disk.         *)
(***************************************************************************)
FileMissing == [kind |-> "missing"]
FileInvalidJson == [kind |-> "invalid_json"]
FileJson(value) == [kind |-> "json", value |-> value]

\* {"passwords": ["ab"]} and {"passwords": ["zz"]}: well-formed
ConfigAb == FileJson(PyDict([k \in {"passwords"} |-> PyList(<<PyStr("ab")>>)]))
ConfigZz == FileJson(PyDict([k \in {"passwords"} |-> PyList(<<PyStr("zz")>>)]))
\* {"other": 1}: a record without the key
ConfigNoKey == FileJson(PyDict([k \in {"other"} |-> PyInt(1)]))
\* ["ab"]: the top level is not a record
ConfigTopList == FileJson(PyList(<<PyStr("ab")>>))
\* {"passwords": "ab"}: the value is a string, not a list
ConfigPwString == FileJson(PyDict([k \in {"passwords"} |-> PyStr("ab")]))
\* {"passwords": [null]}: a list, not of strings
ConfigPwNullList == FileJson(PyDict([k \in {"passwords"} |-> PyList(<<None>>)]))
\* {"passwords": 5}
ConfigPwNumber == FileJson(PyDict([k \in {"passwords"} |-> PyInt(5)]))

WellFormedConfigs == {ConfigAb, ConfigZz}
MalformedConfigs ==
    {FileMissing, FileInvalidJson, ConfigNoKey, ConfigTopList, ConfigPwString,
     ConfigPwNullList, ConfigPwNumber}
ConfigFiles == WellFormedConfigs \cup MalformedConfigs

\* What a call returns: a value, or the exception it lets escape.
Returns(value) == [raised |-> "none", value |-> value]
Raises(exc) == [raised |-> exc, value |-> None]

\* A variant of load_passwords that keeps the list it read when the process
\* started.
load_passwords_once(file) ==
    CASE startConfig.kind = "missing" -> Returns(PyList(<< >>))
      [] startConfig.kind = "invalid_json" -> Returns(PyList(<< >>))
      [] OTHER ->
            LET config == startConfig.value
            IN IF config.t # "dict" THEN Raises("AttributeError")
               ELSE IF "passwords" \in DOMAIN config.v
                    THEN Returns(config.v["passwords"])
                    ELSE Returns(PyList(<< >>))

\* load_passwords(config_path)
load_passwords(file) ==
    CASE file.kind = "missing" -> Returns(PyList(<< >>))
      [] file.kind = "invalid_json" -> Returns(PyList(<< >>))
      [] OTHER ->
            LET config == file.value
            IN IF config.t # "dict" THEN Raises("AttributeError")
               ELSE IF "passwords" \in DOMAIN config.v
                    THEN Returns(config.v["passwords"])
                    ELSE Returns(PyList(<< >>))

IncorrectPassword == "Incorrect password. Please try again."

\* A variant of authenticate_user whose branch for a wrong password falls
\* through to the final return, without a message.
authenticate_user_silent(clicks, submits, password, state, file) ==
    LET passwords == load_passwords(file)
        clicked == Truthy(clicks) \/ Truthy(submits)
    IN IF passwords.raised # "none" THEN Raises(passwords.raised)
       ELSE IF ~clicked THEN Returns(<<state, "">>)
       ELSE LET member == PyIn(password, passwords.value)
            IN CASE member = "TypeError" -> Raises("TypeError")
                 [] member = "true" ->
                      Returns(<<[state EXCEPT !.authenticated = TRUE], "">>)
                 [] OTHER -> Returns(<<state, "">>)

\* A variant of authenticate_user that takes the authentication back when
\* the submitted password is not in the list
authenticate_user_strict(clicks, submits, password, state, file) ==
    LET passwords == load_passwords(file)
        clicked == Truthy(clicks) \/ Truthy(submits)
    IN IF passwords.raised # "none" THEN Raises(passwords.raised)
       ELSE IF ~clicked THEN Returns(<<state, "">>)
       ELSE LET member == PyIn(password, passwords.value)
            IN CASE member = "TypeError" -> Raises("TypeError")
                 [] member = "true" ->
                      Returns(<<[state EXCEPT !.authenticated = TRUE], "">>)
                 [] OTHER ->
                      Returns(<<[state EXCEPT !.authenticated = FALSE],
                                IncorrectPassword>>)

\* authenticate_user(n_clicks, n_submit, password, auth_state), here with
\* parameters (clicks, submits, password, state), reading the configuration
\* file as it is at the call.  The value is the pair of
\* outputs (auth-state.data, login-message.children).
authenticate_user(clicks, submits, password, state, file) ==
    LET passwords == load_passwords(file)
        clicked == Truthy(clicks) \/ Truthy(submits)
    IN IF passwords.raised # "none" THEN Raises(passwords.raised)
       ELSE IF ~clicked THEN Returns(<<state, "">>)
       ELSE LET member == PyIn(password, passwords.value)
            IN CASE member = "TypeError" -> Raises("TypeError")
                 [] member = "true" ->
                      Returns(<<[state EXCEPT !.authenticated = TRUE], "">>)
                 [] OTHER -> Returns(<<state, IncorrectPassword>>)

(***************************************************************************)
(* The data directory DATA_DIR.  A sensor's file                           *)
(* sensor-<id>-hourly-logs.csv is absent, or present and of one of these   *)
(* kinds:                                                                  *)
(*   "ok"      every column is there and the coordinates have a time zone, *)
(*   "no_tz"   timezone_at finds no zone for the coordinates,              *)
(*   "no_cols" a column that extract_metadata indexes is not in the file.  *)
(***************************************************************************)
SensorIds == {"5", "7", "999"}
DatasetKinds == {"absent", "ok", "no_tz", "no_cols"}

\* os.path.exists(os.path.join(DATA_DIR, f"sensor-{sensor_id}-hourly-logs.csv"))
dataset_exists(dir, sensor_id) ==
    sensor_id \in DOMAIN dir /\ dir[sensor_id] # "absent"

\* extract_metadata(df): df['community_name'] and the like raise KeyError
\* when the column is not in the file.
extract_metadata(kind) ==
    IF kind = "no_cols" THEN Raises("KeyError") ELSE Returns(None)

\* load_data(csv_file), up to the exception it lets escape
load_data(kind) ==
    CASE extract_metadata(kind).raised # "none" -> Raises("KeyError")
      [] kind = "no_tz" -> Raises("ValueError")
      [] OTHER -> Returns(None)

\* get_available_sensors(): the ids of the files that follow the convention
get_available_sensors(dir) == {id \in DOMAIN dir : dir[id] # "absent"}

\* get_sensor_metadata(): reads every listed file and extracts its metadata
get_sensor_metadata(dir) ==
    IF \E id \in get_available_sensors(dir) :
          extract_metadata(dir[id]).raised # "none"
    THEN Raises("KeyError")
    ELSE Returns(None)

(***************************************************************************)
(* Paths.  A pathname is modelled by pathname.split("/"): "/" is <<"","">>,*)
(* "/sensor/5" is <<"", "sensor", "5">>.  NoPath is pathname = None.       *)
(***************************************************************************)
NoPath == << >>
RootPath == <<"", "">>
SensorPath(sensor_id) == <<"", "sensor", sensor_id>>

\* pathname.startswith("/sensor/")
StartsWithSensor(path) ==
    Len(path) >= 3 /\ path[1] = "" /\ path[2] = "sensor"

\* pathname.split("/")[-1]
LastSegment(path) == path[Len(path)]

\* What page-content holds: the layout a render returned.
Layout(kind, sensor_id) == [kind |-> kind, sensor_id |-> sensor_id]
Blank == Layout("blank", "")
NeverLost == Layout("never", "")
LostElsewhere == Layout("elsewhere", "")
login_layout == Layout("login", "")
NotFound == Layout("404", "")
Landing == Layout("landing", "")
SensorView(sensor_id) == Layout("sensor", sensor_id)

\* A render: the layout render_page selected, and the exception that escaped
\* while it was built ("none": the layout was returned).
Rendered(layout) == [raised |-> "none", value |-> layout]
Failed(exc, layout) == [raised |-> exc, value |-> layout]

\* landing_page_layout()
landing_page_layout(dir) ==
    IF get_sensor_metadata(dir).raised # "none"
    THEN Failed(get_sensor_metadata(dir).raised, Landing)
    ELSE Rendered(Landing)

\* A variant that takes split("/")[1] for the sensor id
PathSensorIdSecond(path) == path[2]

\* The sensor_id render_page takes from the path
PathSensorId(path) == LastSegment(path)

\* A variant of render_page that asks for the authentication only at "/"
render_page_open(state, path, dir) ==
    IF path = NoPath THEN Failed("AttributeError", Blank)
    ELSE IF path = RootPath
         THEN IF ~state.authenticated THEN Rendered(login_layout)
              ELSE landing_page_layout(dir)
    ELSE IF StartsWithSensor(path)
              /\ dataset_exists(dir, PathSensorId(path))
         THEN LET sensor_id == PathSensorId(path)
                  loaded == load_data(dir[sensor_id])
              IN IF loaded.raised # "none"
                 THEN Failed(loaded.raised, SensorView(sensor_id))
                 ELSE Rendered(SensorView(sensor_id))
    ELSE Rendered(NotFound)

\* A variant of render_page that shows the landing page to every
\* authenticated session, whatever its path
render_page_home(state, path, dir) ==
    IF ~state.authenticated THEN Rendered(login_layout)
    ELSE landing_page_layout(dir)

\* render_page(auth_state, pathname), here (state, path), reading DATA_DIR
render_page(state, path, dir) ==
    IF ~state.authenticated THEN Rendered(login_layout)
    ELSE IF path = NoPath THEN Failed("AttributeError", Blank)
    ELSE IF path = RootPath THEN landing_page_layout(dir)
    ELSE IF StartsWithSensor(path)
              /\ dataset_exists(dir, PathSensorId(path))
         THEN LET sensor_id == PathSensorId(path)
                  loaded == load_data(dir[sensor_id])
              IN IF loaded.raised # "none"
                 THEN Failed(loaded.raised, SensorView(sensor_id))
                 ELSE Rendered(SensorView(sensor_id))
    ELSE Rendered(NotFound)

\* enable_go_button(sensor_selection): the value of go-button.disabled
enable_go_button(sensor_selection) == sensor_selection = None

\* navigate_to_dashboard(n_clicks, sensor_id): the new url.pathname
navigate_to_dashboard(clicks, sensor_id) ==
    IF Truthy(clicks) /\ Truthy(sensor_id)
    THEN SensorPath(sensor_id.v)
    ELSE RootPath

\* login-button clicks per login form that the model follows
MaxClicks == 2

\* The event a session saw last: what happened, and for a submit the
\* password, the configuration file at that moment and whether the session
\* was authenticated already; for a select or a Go the sensor id.
Event(ev, password, file, was_auth, sensor_id) ==
    [ev |-> ev, password |-> password, file |-> file, was_auth |-> was_auth,
     sensor_id |-> sensor_id]
PageLoaded == Event("load", None, FileMissing, FALSE, None)
Navigated == Event("navigate", None, FileMissing, FALSE, None)
Submitted(password, file, was_auth) ==
    Event("submit", password, file, was_auth, None)
Selected(sensor_id) == Event("select", None, FileMissing, FALSE, sensor_id)
Confirmed(sensor_id) == Event("go", None, FileMissing, FALSE, sensor_id)

\* A variant in which the prop is one object of the server process, the same
\* for every session
SetPropGlobal(prop, s, value) == [t \in DOMAIN prop |-> value]

\* A prop of one session is written: every session has its own browser
\* storage and its own layout.
SetProp(prop, s, value) == [prop EXCEPT ![s] = value]

\* A variant of app.layout whose store starts authenticated
FreshSessionAuthenticated(p) ==
    [auth_state |-> [authenticated |-> TRUE], pathname |-> p]

\* app.layout as the browser builds it for a session with an empty session
\* storage
FreshSession(p) ==
    [auth_state |-> [authenticated |-> FALSE], pathname |-> p]

(***************************************************************************)
(* Actions.                                                                *)
(***************************************************************************)

\* A session's storage is lost (the tab is closed, the storage expires or is
\* cleared) and the browser loads the application again at path p: every
\* prop is the one app.layout gives it.
SessionLost(s, p) ==
    /\ auth_state' = SetProp(auth_state, s, FreshSession(p).auth_state)
    /\ pathname' = SetProp(pathname, s, FreshSession(p).pathname)
    /\ page_content' = SetProp(page_content, s, Blank)
    /\ login_message' = SetProp(login_message, s, "")
    /\ dropdown' = SetProp(dropdown, s, None)
    /\ n_clicks' = SetProp(n_clicks, s, 0)
    /\ pending' = SetProp(pending, s, TRUE)
    /\ fault' = SetProp(fault, s, "none")
    /\ route' = SetProp(route, s, Blank)
    /\ last' = SetProp(last, s, PageLoaded)
    /\ lost' = SetProp(lost, s, IF route[s].kind = "sensor" THEN route[s]
                                 ELSE LostElsewhere)
    /\ actor' = s
    /\ UNCHANGED <<diskVars, analyticsVars>>

\* The user of session s changes the address to p (a link, the address bar,
\* the history): url.pathname changes, the session storage stays.
Navigate(s, p) ==
    /\ p # pathname[s]
    /\ pathname' = SetProp(pathname, s, p)
    /\ pending' = SetProp(pending, s, TRUE)
    /\ last' = SetProp(last, s, Navigated)
    /\ actor' = s
    /\ UNCHANGED <<auth_state, page_content, login_message, dropdown,
                   n_clicks, fault, route, lost>>
    /\ UNCHANGED <<diskVars, analyticsVars>>

\* The callback authenticate_user, called with the given trigger counts.
\* Its outputs auth-state.data and login-message.children are written when
\* it returns; auth-state.data is an Input of render_page.
Authenticate(s, clicks, submits, password) ==
    LET result == authenticate_user(clicks, submits, password, auth_state[s],
                                    configFile)
    IN /\ last' = SetProp(last, s, Submitted(password, configFile,
                                             auth_state[s].authenticated))
       /\ fault' = SetProp(fault, s, result.raised)
       /\ IF result.raised # "none"
          THEN UNCHANGED <<auth_state, login_message, pending>>
          ELSE /\ auth_state' = SetProp(auth_state, s, result.value[1])
               /\ login_message' = SetProp(login_message, s, result.value[2])
               /\ pending' = SetProp(pending, s, TRUE)
       /\ actor' = s
       /\ UNCHANGED <<pathname, page_content, dropdown, route, lost>>
       /\ UNCHANGED <<diskVars, analyticsVars>>

\* submit(password) by a click on the login button
SubmitClick(s, password) ==
    /\ page_content[s] = login_layout
    /\ n_clicks[s] < MaxClicks
    /\ n_clicks' = SetProp(n_clicks, s, n_clicks[s] + 1)
    /\ Authenticate(s, PyInt(n_clicks[s] + 1), None, password)

\* submit(password) by the Enter key in the password field (n_submit)
SubmitEnter(s, password) ==
    /\ page_content[s] = login_layout
    /\ n_clicks[s] < MaxClicks
    /\ n_clicks' = n_clicks
    /\ Authenticate(s, PyInt(n_clicks[s]), PyInt(1), password)

\* select(sensor_id) in the dropdown of the landing page
Select(s, sensor_id) ==
    /\ page_content[s] = Landing
    /\ dropdown[s] # sensor_id
    /\ dropdown' = SetProp(dropdown, s, sensor_id)
    /\ last' = SetProp(last, s, Selected(sensor_id))
    /\ actor' = s
    /\ UNCHANGED <<auth_state, pathname, page_content, login_message,
                   n_clicks, pending, fault, route, lost>>
    /\ UNCHANGED <<diskVars, analyticsVars>>

\* confirm: a click on Go, which enable_go_button enables once a sensor is
\* selected; the callback navigate_to_dashboard sets url.pathname, an Input
\* of render_page
Go(s) ==
    /\ page_content[s] = Landing
    /\ ~enable_go_button(dropdown[s])
    /\ pathname' = SetProp(pathname, s,
                           navigate_to_dashboard(PyInt(1), dropdown[s]))
    /\ pending' = SetProp(pending, s, TRUE)
    /\ fault' = SetProp(fault, s, "none")
    /\ last' = SetProp(last, s, Confirmed(dropdown[s]))
    /\ actor' = s
    /\ UNCHANGED <<auth_state, page_content, login_message, dropdown,
                   n_clicks, route, lost>>
    /\ UNCHANGED <<diskVars, analyticsVars>>

\* What the browser shows of a callback that raised.  The server answers
\* the callback's request with status 500 and the outputs stay as they
\* were; started with debug=True the page carries the dev tools, which
\* list the error, and behind a WSGI server it carries none.
dev_tools_error(mode, raised) == mode /\ raised # "none"

\* The callback render_page, run because auth-state.data or url.pathname
\* changed.  A layout that is returned replaces page-content.children, and
\* with it the dropdown of an earlier landing page; an exception leaves
\* page-content as it was.
RenderPage(s) ==
    LET result == render_page(auth_state[s], pathname[s], dataDir)
    IN /\ pending[s]
       /\ pending' = SetProp(pending, s, FALSE)
       /\ route' = SetProp(route, s, result.value)
       /\ fault' = SetProp(fault, s, result.raised)
       /\ IF result.raised = "none"
          THEN /\ page_content' = SetProp(page_content, s, result.value)
               /\ dropdown' = SetProp(dropdown, s, None)
          ELSE UNCHANGED <<page_content, dropdown>>
       /\ actor' = s
       /\ UNCHANGED <<auth_state, pathname, login_message, n_clicks, last,
                      lost>>
       /\ UNCHANGED <<diskVars, analyticsVars>>

\* Someone edits dashboard-config.json while the process runs.
EditConfig(file) ==
    /\ file # configFile
    /\ configFile' = file
    /\ actor' = "disk"
    /\ UNCHANGED <<startConfig, dataDir, debug>>
    /\ UNCHANGED <<sessionVars, analyticsVars>>

vars == <<configFile, startConfig, dataDir, debug, auth_state, pathname,
          page_content, login_message, dropdown, n_clicks, pending, fault,
          route, last, lost, actor, df, seasonal_averages, next_day, shape,
          csv_file, tzdata, dashboard, profile, fetch, data_files, landing,
          opened>>

(***************************************************************************)
(* The input sets of the specifications.                                   *)
(***************************************************************************)
\* "/", "/sensor/<id>", "/sensor/x/<id>" (an extra segment), "/sensor/",
\* "/about", and no pathname at all
Paths ==
    {RootPath, NoPath, <<"", "about">>, <<"", "sensor", "">>,
     <<"", "sensor", "x", "5">>}
       \cup {SensorPath(id) : id \in SensorIds}

\* The value of password-input: nothing typed, or a string
Passwords == {None, PyStr(""), PyStr("a"), PyStr("ab"), PyStr("zz")}

\* The value of sensor-dropdown
Selections == {None} \cup {PyStr(id) : id \in SensorIds}

\* The data directories the process may be started on: the files of
\* sensors 5 and 7 are of the given kinds, sensor 999 has no file.
DirOf(kind5, kind7) ==
    [id \in SensorIds |->
        IF id = "5" THEN kind5 ELSE IF id = "7" THEN kind7 ELSE "absent"]
DataDirs ==
    {DirOf("ok", "absent"), DirOf("ok", "no_tz"), DirOf("no_cols", "ok"),
     DirOf("absent", "absent")}

\* modes: the ways the process may have been started (the values of debug)
InitSessions(dirs, files, modes) ==
    /\ configFile \in files
    /\ startConfig = configFile
    /\ dataDir \in dirs
    /\ debug \in modes
    /\ auth_state = [s \in Sessions |-> FreshSession(RootPath).auth_state]
    /\ pathname = [s \in Sessions |-> FreshSession(RootPath).pathname]
    /\ page_content = [s \in Sessions |-> Blank]
    /\ login_message = [s \in Sessions |-> ""]
    /\ dropdown = [s \in Sessions |-> None]
    /\ n_clicks = [s \in Sessions |-> 0]
    /\ pending = [s \in Sessions |-> TRUE]
    /\ fault = [s \in Sessions |-> "none"]
    /\ route = [s \in Sessions |-> Blank]
    /\ last = [s \in Sessions |-> PageLoaded]
    /\ lost = [s \in Sessions |-> NeverLost]
    /\ actor = "disk"

\* The fetcher does not run, the data directory is empty and not listed
Idle == [pc |-> "idle"]
NotListed == [kind |-> "none"]
NothingOpened == [kind |-> "none"]
NoFetch ==
    /\ fetch = Idle
    /\ data_files = {}
    /\ landing = NotListed
    /\ opened = NothingOpened

\* No dashboard is being made
NoFile ==
    /\ csv_file = [columns |-> {}, rows |-> << >>]
    /\ tzdata = "oceans"
    /\ dashboard = [stage |-> "none"]
    /\ profile = [kind |-> "none"]

\* No file is being read
NoReadings ==
    /\ df = << >>
    /\ seasonal_averages = << >>
    /\ next_day = 0
    /\ shape = "plain"
    /\ NoFile
    /\ NoFetch

\* The router: one session, every path, every data directory, the
\* configuration file {"passwords": ["ab"]}
Init == InitSessions(DataDirs, {ConfigAb}, BOOLEAN) /\ NoReadings

Next ==
    \/ \E p \in Paths : SessionLost("s1", p)
    \/ \E p \in Paths : Navigate("s1", p)
    \/ \E pw \in Passwords : SubmitClick("s1", pw)
    \/ \E pw \in Passwords : SubmitEnter("s1", pw)
    \/ \E id \in Selections : Select("s1", id)
    \/ Go("s1")
    \/ RenderPage("s1")

Spec == Init /\ [][Next]_vars

\* The configuration file: one session at "/", one data directory, every
\* configuration file, edited while the process runs
InitConfig ==
    /\ InitSessions({DirOf("ok", "absent")}, {ConfigAb, FileMissing, ConfigTopList},
                    {FALSE})
    /\ NoReadings

NextConfig ==
    \/ SessionLost("s1", RootPath)
    \/ \E pw \in Passwords : SubmitClick("s1", pw)
    \/ \E pw \in Passwords : SubmitEnter("s1", pw)
    \/ RenderPage("s1")
    \/ \E file \in ConfigFiles : EditConfig(file)

SpecConfig == InitConfig /\ [][NextConfig]_vars

\* Two sessions served by one process
SharedPaths == {RootPath, SensorPath("5")}
SharedSelections == {PyStr("5"), PyStr("999")}
SharedPasswords == {PyStr("ab"), PyStr("zz")}
InitShared == InitSessions({DirOf("ok", "absent")}, {ConfigAb}, {FALSE}) /\ NoReadings

NextShared ==
    \E s \in Sessions :
        \/ SessionLost(s, RootPath)
        \/ \E p \in SharedPaths : Navigate(s, p)
        \/ \E pw \in SharedPasswords : SubmitClick(s, pw)
        \/ \E id \in SharedSelections : Select(s, id)
        \/ Go(s)
        \/ RenderPage(s)

SpecShared == InitShared /\ [][NextShared]_vars

(***************************************************************************)
(* The claims about the session router.                                    *)
(***************************************************************************)

\* The PasswordAllowList of a configuration file: the strings of its
\* "passwords" list; empty when the file is missing or malformed.
AllowList(file) ==
    IF /\ file.kind = "json"
       /\ file.value.t = "dict"
       /\ "passwords" \in DOMAIN file.value.v
       /\ file.value.v["passwords"].t = "list"
       /\ \A i \in 1..Len(file.value.v["passwords"].v) :
             file.value.v["passwords"].v[i].t = "str"
    THEN {file.value.v["passwords"].v[i].v :
             i \in 1..Len(file.value.v["passwords"].v)}
    ELSE {}

InAllowList(password, file) ==
    password.t = "str" /\ password.v \in AllowList(file)

\* Session s is where the render of its last event left it, and that event
\* was a submit, by an unauthenticated session, of a password in (member)
\* or not in (~member) the allow list of the configuration file
AfterSubmit(s, member) ==
    /\ last[s].ev = "submit"
    /\ ~last[s].was_auth
    /\ InAllowList(last[s].password, last[s].file) = member

\* Paths of the form /sensor/<id>
OfSensorForm(path) == Len(path) = 3 /\ path[1] = "" /\ path[2] = "sensor"

\* C1 as stated: after submit(password) with a password of the allow list,
\* in an unauthenticated session that holds any path, authenticated is true
\* and the next rendered state is Landing.
C1_SubmitLeadsToLanding ==
    \A s \in Sessions :
        (AfterSubmit(s, TRUE) /\ ~pending[s] /\ pathname[s] # NoPath)
            => (auth_state[s].authenticated /\ route[s] = Landing)

\* C1 as amended: after submit(password) with a password of the allow list,
\* in an unauthenticated session, authenticated is true at once, and the
\* next render selects the state of the path the session holds: Landing if
\* and only if the path is "/", SensorView(id) for "/sensor/<id>" with a
\* dataset of id, and what is returned is what the page shows.
C1_SubmitRendersThePath ==
    \A s \in Sessions :
        AfterSubmit(s, TRUE) =>
            /\ auth_state[s].authenticated
            /\ ~pending[s] =>
                  /\ route[s] = Landing <=> pathname[s] = RootPath
                  /\ \A id \in SensorIds :
                        (pathname[s] = SensorPath(id) /\ dataDir[id] # "absent")
                            => route[s] = SensorView(id)
                  /\ route[s] # login_layout
                  /\ fault[s] = "none" => page_content[s] = route[s]

C1_Witness ==
    \E s \in Sessions :
        /\ AfterSubmit(s, TRUE)
        /\ ~pending[s]
        /\ lost[s] = NeverLost
        /\ pathname[s] = SensorPath("5")
        /\ page_content[s] = SensorView("5")

C3_GoLeadsToSensorViewOrNotFound ==
    \A s \in Sessions :
        (last[s].ev = "go" /\ ~pending[s]) =>
            LET sensor_id == last[s].sensor_id.v
            IN IF dataDir[sensor_id] # "absent"
               THEN /\ route[s] = SensorView(sensor_id)
                    /\ pathname[s] = SensorPath(sensor_id)
                    /\ fault[s] = "none" => page_content[s] = SensorView(sensor_id)
                    /\ dataDir[sensor_id] = "ok" => fault[s] = "none"
               ELSE /\ page_content[s] = NotFound
                    /\ route[s] = NotFound
                    /\ fault[s] = "none"

C3_Witness ==
    \E s \in Sessions :
        /\ last[s].ev = "go"
        /\ ~pending[s]
        /\ last[s].sensor_id = PyStr("5")
        /\ dataDir["5"] = "ok"
        /\ page_content[s] = SensorView("5")

\* The other case of C3: select(999) without a dataset ends at NotFound.
C3_NotFoundReached ==
    \E s \in Sessions :
        /\ last[s].ev = "go"
        /\ ~pending[s]
        /\ last[s].sensor_id = PyStr("999")
        /\ page_content[s] = NotFound

\* C4 as stated, for the paths that are present: an authenticated session
\* whose path is neither "/" nor of the form "/sensor/<id>" is rendered
\* NotFound, and no exception escapes.  (With no path at all render_page
\* raises AttributeError: NoPath is left out here only so that the trace
\* shows a path a browser sends.)
C4_UnknownPathsRenderNotFound ==
    \A s \in Sessions :
        (/\ auth_state[s].authenticated
         /\ ~pending[s]
         /\ pathname[s] # NoPath
         /\ pathname[s] # RootPath
         /\ ~OfSensorForm(pathname[s]))
            => (page_content[s] = NotFound /\ fault[s] = "none")

\* C5 as stated, in the part that fails: a session that was lost while at
\* the view of a sensor and then submits a password of the allow list is
\* not at that SensorView again (it is at Landing).
C5_LostSessionForgetsItsSensor ==
    \A s \in Sessions :
        (lost[s].kind = "sensor" /\ AfterSubmit(s, TRUE) /\ ~pending[s])
            => route[s] # lost[s]

\* C5 as amended: a lost session is unauthenticated, with no sensor selected
\* in the dropdown and the login page as its next render; the path is no
\* part of what is lost, and after the next successful submit the session
\* is at Landing if and only if the path it holds is "/".
C5_LostSessionKeepsOnlyThePath ==
    \A s \in Sessions :
        /\ (lost[s] # NeverLost /\ last[s] = PageLoaded) =>
              /\ ~auth_state[s].authenticated
              /\ dropdown[s] = None
              /\ ~pending[s] => page_content[s] = login_layout
        /\ (lost[s] # NeverLost /\ AfterSubmit(s, TRUE) /\ ~pending[s]) =>
              /\ dropdown[s] = None
              /\ route[s] = Landing <=> pathname[s] = RootPath

C5_Witness ==
    \E s \in Sessions :
        /\ lost[s] = SensorView("5")
        /\ AfterSubmit(s, TRUE)
        /\ ~pending[s]
        /\ pathname[s] = SensorPath("5")
        /\ route[s] = SensorView("5")
        /\ page_content[s] = SensorView("5")

\* C6: a step of one session (a submit, a select, a Go, a navigation, a
\* render, a loss) leaves every prop of every other session as it was.
C6_SessionsAreIsolated ==
    [][\A t \in Sessions :
          t # actor' => SessionProps(t)' = SessionProps(t)]_vars

C6_Witness ==
    /\ auth_state["s1"].authenticated
    /\ page_content["s1"] = SensorView("5")
    /\ ~auth_state["s2"].authenticated
    /\ page_content["s2"] = login_layout
    /\ login_message["s2"] = IncorrectPassword
    /\ ~pending["s1"] /\ ~pending["s2"]

\* C7 as stated: the allow list is the one loaded when the process started,
\* so a submit is accepted if and only if its password is in the list of the
\* configuration file as it was then (both files well-formed).
C7_AllowListLoadedOnce ==
    \A s \in Sessions :
        (/\ last[s].ev = "submit"
         /\ ~last[s].was_auth
         /\ startConfig \in WellFormedConfigs
         /\ last[s].file \in WellFormedConfigs)
            => (auth_state[s].authenticated
                    <=> InAllowList(last[s].password, startConfig))

\* C7 as amended: the list is read from the configuration file at every
\* submit: a submit is accepted if and only if its password is in the list
\* of the file as it is at that submit (a well-formed file).
C7_AllowListReadAtEverySubmit ==
    \A s \in Sessions :
        (/\ last[s].ev = "submit"
         /\ ~last[s].was_auth
         /\ last[s].file \in WellFormedConfigs)
            => /\ auth_state[s].authenticated
                    <=> InAllowList(last[s].password, last[s].file)
               /\ fault[s] = "none"

C7_Witness ==
    \E s \in Sessions :
        /\ last[s].ev = "submit"
        /\ ~last[s].was_auth
        /\ startConfig = ConfigAb
        /\ last[s].file = ConfigZz
        /\ last[s].password = PyStr("zz")
        /\ auth_state[s].authenticated

\* C8 as stated: with a missing or malformed configuration file the allow
\* list is empty: a submit leaves the session unauthenticated and nothing
\* is raised.
C8_MalformedConfigRejectsAll ==
    \A s \in Sessions :
        (/\ last[s].ev = "submit"
         /\ ~last[s].was_auth
         /\ last[s].file \in MalformedConfigs)
            => (~auth_state[s].authenticated /\ fault[s] = "none")

(***************************************************************************)
(* Part 2: the analytics.                                                  *)
(*                                                                         *)
(* A local date is a day number, 0 for 1 January of the first year, in     *)
(* years of 365 days.                                                      *)
(***************************************************************************)

\* The day of the year (from 0) on which each month starts
MonthStarts == <<0, 31, 59, 90, 120, 151, 181, 212, 243, 273, 304, 334>>

\* df['local_datetime'].dt.month of a local date
MonthOf(date) ==
    LET doy == date % 365
    IN CHOOSE m \in 1..12 :
          /\ MonthStarts[m] <= doy
          /\ m = 12 \/ doy < MonthStarts[m + 1]

HotDry == "Hot Dry (Dec-Feb)"
LongRains == "Long Rains (Mar-May)"
CoolDry == "Cool Dry (Jun-Aug)"
ShortRains == "Short Rains (Sep-Nov)"

\* A variant of determine_season whose first list is [1, 2, 3], and so on
determine_season_shifted(month) ==
    IF month \in {1, 2, 3} THEN HotDry
    ELSE IF month \in {4, 5, 6} THEN LongRains
    ELSE IF month \in {7, 8, 9} THEN CoolDry
    ELSE ShortRains

\* determine_season(month)
determine_season(month) ==
    IF month \in {12, 1, 2} THEN HotDry
    ELSE IF month \in {3, 4, 5} THEN LongRains
    ELSE IF month \in {6, 7, 8} THEN CoolDry
    ELSE ShortRains

\* The row load_data makes of a reading: date and month of its local time,
\* and the season of the month
Row(date, liters) ==
    [date |-> date, month |-> MonthOf(date),
     season |-> determine_season(MonthOf(date)), liters |-> liters]

\* The days a complete season needs
CompleteSeasonDays == 85

\* The sum of liters over the rows i..Len(frame) of the given season and date
RECURSIVE SumLiters(_, _, _, _)
SumLiters(frame, i, season, date) ==
    IF i > Len(frame) THEN 0
    ELSE (IF frame[i].season = season /\ frame[i].date = date
          THEN frame[i].liters ELSE 0)
         + SumLiters(frame, i + 1, season, date)

\* df.groupby(['season', 'date'])['liters'].sum().reset_index()
GroupBySeasonDate(frame) ==
    {[season |-> k[1], date |-> k[2],
      liters |-> SumLiters(frame, 1, k[1], k[2])] :
        k \in {<<frame[i].season, frame[i].date>> : i \in 1..Len(frame)}}

\* season_data.groupby('season')['date'].nunique(), for one season
NUnique(season_data, season) ==
    Cardinality({r.date : r \in {x \in season_data : x.season = season}})

\* The sum of the liters of a set of rows with distinct (season, date)
RECURSIVE SumOf(_)
SumOf(rows) ==
    IF rows = {} THEN 0
    ELSE LET r == CHOOSE x \in rows : TRUE
         IN r.liters + SumOf(rows \ {r})

\* groupby('season')['liters'].mean() of one season: the exact quotient
\* sum / n
Mean(season_data, season) ==
    LET rows == {x \in season_data : x.season = season}
    IN [sum |-> SumOf(rows), n |-> Cardinality(rows)]

\* A variant of calculate_seasonal_averages that keeps the seasons of more
\* than 85 days
calculate_seasonal_averages_gt(frame) ==
    LET season_data == GroupBySeasonDate(frame)
        seasons == {r.season : r \in season_data}
        complete_seasons ==
            {x \in seasons : NUnique(season_data, x) > CompleteSeasonDays}
        kept == {r \in season_data : r.season \in complete_seasons}
    IN [x \in {r.season : r \in kept} |-> Mean(kept, x)]

\* calculate_seasonal_averages(df): season -> avg_daily_volume, for the
\* seasons that have a row in the result
calculate_seasonal_averages(frame) ==
    LET season_data == GroupBySeasonDate(frame)
        seasons == {r.season : r \in season_data}
        complete_seasons ==
            {x \in seasons : NUnique(season_data, x) >= CompleteSeasonDays}
        kept == {r \in season_data : r.season \in complete_seasons}
    IN [x \in {r.season : r \in kept} |-> Mean(kept, x)]

\* Readings per file that the model follows
MaxReadings == 100

\* The first days of the files: 1 January, 1, 8 and 9 March, 1 June,
\* 1 September, 1 December
StartDays == {0, 59, 66, 67, 151, 243, 334}

\* One reading a day; a second reading on every fourth day; no reading on
\* every ninth day
Shapes == {"plain", "repeats", "gaps"}

\* The liters of the reading of a day
LitersOn(date) == 10 * (1 + (date % 3))

\* The day of the reading after the one of `date`
FollowingDay(date, sh) ==
    IF sh = "gaps" /\ (date + 1) % 9 = 0 THEN date + 2 ELSE date + 1

\* load_data reads one more reading of the file, a second one of the last
\* day if the file repeats that day, and the averages are computed over
\* the frame.
ReadReading ==
    /\ Len(df) < MaxReadings
    /\ LET repeat == /\ shape = "repeats"
                     /\ df # << >>
                     /\ df[Len(df)].date % 4 = 0
                     /\ (Len(df) = 1 \/ df[Len(df) - 1].date # df[Len(df)].date)
           date == IF repeat THEN df[Len(df)].date ELSE next_day
           frame == Append(df, Row(date, LitersOn(date)))
       IN /\ df' = frame
          /\ next_day' = IF repeat THEN next_day ELSE FollowingDay(date, shape)
          /\ seasonal_averages' = calculate_seasonal_averages(frame)
    /\ UNCHANGED shape
    /\ UNCHANGED <<diskVars, sessionVars, actor, fileVars, fetchVars>>

\* The analytics: a file of each shape from each first day, read reading
\* by reading
InitSeason ==
    /\ InitSessions({DirOf("ok", "absent")}, {ConfigAb}, {FALSE})
    /\ df = << >>
    /\ seasonal_averages = calculate_seasonal_averages(<< >>)
    /\ next_day \in StartDays
    /\ shape \in Shapes
    /\ NoFile
    /\ NoFetch

NextSeason == ReadReading

SpecSeason == InitSeason /\ [][NextSeason]_vars

(***************************************************************************)
(* The claims about the analytics                                          *)
(***************************************************************************)

\* The seasons of the months 1..12
SeasonTable ==
    <<HotDry, HotDry, LongRains, LongRains, LongRains, CoolDry,
      CoolDry, CoolDry, ShortRains, ShortRains, ShortRains, HotDry>>

\* The month pairs at which the season changes
BoundaryPairs == {<<2, 3>>, <<5, 6>>, <<8, 9>>, <<11, 12>>}

\* The distinct local dates of the rows of a season
DatesOf(frame, season) ==
    {frame[i].date : i \in {j \in 1..Len(frame) : frame[j].season = season}}

\* C9: every reading of a month 1..12 gets the season of the fixed table,
\* {12,1,2} Hot Dry, {3,4,5} Long Rains, {6,7,8} Cool Dry, {9,10,11} Short
\* Rains, and two readings in a row whose months are 2/3, 5/6, 8/9 or 11/12
\* are in different seasons.
C9_SeasonIsTheFixedMapping ==
    \A i \in 1..Len(df) :
        /\ df[i].month \in 1..12
        /\ df[i].season \in {HotDry, LongRains, CoolDry, ShortRains}
        /\ df[i].season = SeasonTable[df[i].month]
        /\ (i < Len(df) /\ <<df[i].month, df[i + 1].month>> \in BoundaryPairs)
              => df[i].season # df[i + 1].season

\* A reading of November is followed by one of December, the first in
\* Short Rains and the second in Hot Dry
C9_Witness ==
    \E i \in 1..(Len(df) - 1) :
        /\ df[i].month = 11
        /\ df[i + 1].month = 12
        /\ df[i].season = ShortRains
        /\ df[i + 1].season = HotDry

\* C10: a season has a row in the result of calculate_seasonal_averages
\* exactly if the frame has at least 85 distinct local dates of that season;
\* a season with fewer has no row at all.
C10_SeasonKeptIffEightyFiveDates ==
    \A season \in {HotDry, LongRains, CoolDry, ShortRains} :
        season \in DOMAIN seasonal_averages
            <=> Cardinality(DatesOf(df, season)) >= 85

\* A season with exactly 85 dates is in the result, with the mean of its 85
\* days, and a season the frame has readings of, but fewer, is not
C10_Witness ==
    \E kept, dropped \in {HotDry, LongRains, CoolDry, ShortRains} :
        /\ Cardinality(DatesOf(df, kept)) = 85
        /\ kept \in DOMAIN seasonal_averages
        /\ seasonal_averages[kept].n = 85
        /\ DatesOf(df, dropped) # {}
        /\ dropped \notin DOMAIN seasonal_averages

(***************************************************************************)
(* Part 3: from the file to the dashboard.                                 *)
(*                                                                         *)
(* A file is the set of its columns and the sequence of its rows, a row    *)
(* giving a cell to each column of the file.  A cell is NaN (an empty      *)
(* cell), a string or a number.  gmt_datetime is a number of hours since   *)
(* 0:00 UTC of day 0.                                                      *)
(***************************************************************************)
NaN == [t |-> "nan"]

DescriptiveColumns ==
    {"community_name", "service_provider", "water_point_name",
     "installation_date", "model", "qr_code"}

AllColumns ==
    {"gmt_datetime", "latitude", "longitude"} \cup DescriptiveColumns
        \cup {"liters", "temperature", "red_flag"}

\* df[col]: the cells of a column, in input order
Column(frame, col) == [i \in 1..Len(frame.rows) |-> frame.rows[i][col]]

\* The order in which numpy sorts the strings of the model
SortKey(cell) ==
    CASE cell.v = "A" -> 1
      [] cell.v = "B" -> 2
      [] cell.v = "K" -> 3
      [] OTHER -> 4

\* Series.mode(): the non-null values that occur most often, which pandas
\* returns sorted
Modes(column) ==
    LET values == {column[i] : i \in DOMAIN column} \ {NaN}
        count(v) == Cardinality({i \in DOMAIN column : column[i] = v})
    IN {v \in values : \A w \in values : count(w) <= count(v)}

\* Series.mode().values[0]
FirstMode(column) ==
    CHOOSE v \in Modes(column) : \A w \in Modes(column) : SortKey(v) <= SortKey(w)

Unknown == PyStr("Unknown")

\* df[col].mode().values[0] if not df[col].mode().empty else 'Unknown'
FieldOf(frame, col) ==
    IF col \notin frame.columns THEN Raises("KeyError")
    ELSE IF Modes(Column(frame, col)) = {} THEN Returns(Unknown)
    ELSE Returns(FirstMode(Column(frame, col)))

\* A variant of the installation_date entry without its test
\* 'installation_date' in df
InstallationDateUnguarded(frame) == FieldOf(frame, "installation_date")

\* The installation_date entry of extract_metadata
InstallationDateOf(frame) ==
    IF "installation_date" \in frame.columns
    THEN FieldOf(frame, "installation_date")
    ELSE Returns(Unknown)

\* A variant of valid_lat_lon that takes the first latitude and the first
\* longitude there are, each on its own
first_lat_first_lon(frame) ==
    LET first(col) ==
            IF \E i \in 1..Len(frame.rows) : frame.rows[i][col] # NaN
            THEN frame.rows[CHOOSE i \in 1..Len(frame.rows) :
                               /\ frame.rows[i][col] # NaN
                               /\ \A j \in 1..(i - 1) : frame.rows[j][col] = NaN][col]
            ELSE PyInt(0)
    IN [latitude |-> first("latitude"), longitude |-> first("longitude")]

\* df[['latitude', 'longitude']].dropna().iloc[0], or {'latitude': 0,
\* 'longitude': 0} when dropna() leaves nothing
valid_lat_lon(frame) ==
    LET both == {i \in 1..Len(frame.rows) :
                    /\ frame.rows[i]["latitude"] # NaN
                    /\ frame.rows[i]["longitude"] # NaN}
    IN IF both = {} THEN [latitude |-> PyInt(0), longitude |-> PyInt(0)]
       ELSE LET i == CHOOSE k \in both : \A j \in both : k <= j
            IN [latitude |-> frame.rows[i]["latitude"],
                longitude |-> frame.rows[i]["longitude"]]

\* extract_metadata(df)
extract_metadata_df(frame) ==
    LET entry == [col \in DescriptiveColumns |->
                     IF col = "installation_date" THEN InstallationDateOf(frame)
                     ELSE FieldOf(frame, col)]
    IN IF \/ ~({"latitude", "longitude"} \subseteq frame.columns)
          \/ \E col \in DescriptiveColumns : entry[col].raised # "none"
       THEN Raises("KeyError")
       ELSE Returns(
           [latitude |-> valid_lat_lon(frame).latitude,
            longitude |-> valid_lat_lon(frame).longitude,
            community_name |-> entry["community_name"].value,
            service_provider |-> entry["service_provider"].value,
            water_point_name |-> entry["water_point_name"].value,
            installation_date |-> entry["installation_date"].value,
            model |-> entry["model"].value,
            qr_code |-> entry["qr_code"].value])

\* TimezoneFinder().timezone_at(lat=..., lng=...): the zone of a point, or
\* None.  Zone data with the ocean zones has a zone for every point; zone
\* data of the land only has none for a point at sea.
timezone_at(lat, lng, data) ==
    LET point == <<lat.v, lng.v>>
        land == CASE point = <<-1, 37>> -> "Africa/Nairobi"
                  [] point = <<19, -99>> -> "America/Mexico_City"
                  [] point = <<19, 37>> -> "Africa/Khartoum"
                  [] OTHER -> ""
        sea == CASE point = <<-30, -140>> -> "Etc/GMT+9"
                 [] point = <<-1, -99>> -> "Etc/GMT+7"
                 [] OTHER -> "Etc/GMT"
    IN IF land # "" THEN PyStr(land)
       ELSE IF data = "oceans" THEN PyStr(sea)
       ELSE None

\* The hours a zone is ahead of UTC (none of the zones has a summer time)
UtcOffset(zone) ==
    CASE zone = "Africa/Nairobi" -> 3
      [] zone = "Africa/Khartoum" -> 2
      [] zone = "America/Mexico_City" -> -6
      [] zone = "Etc/GMT+7" -> -7
      [] zone = "Etc/GMT+9" -> -9
      [] OTHER -> 0

\* A variant of the zone test that goes on with UTC when there is no zone
ZoneOrUtc(timezone_str) ==
    IF timezone_str = None THEN Returns(PyStr("UTC")) ELSE Returns(timezone_str)

\* if timezone_str is None: raise ValueError(...)
CheckedZone(timezone_str) ==
    IF timezone_str = None THEN Raises("ValueError") ELSE Returns(timezone_str)

\* A variant of the conversion that leaves the instant in UTC
UtcInstant(gmt_datetime, zone) == gmt_datetime

\* df['gmt_datetime'].dt.tz_convert(local_tz): the hours since 0:00 of day 0
\* on the clock of the zone
LocalInstant(gmt_datetime, zone) == gmt_datetime + UtcOffset(zone)

\* The row of df that load_data makes of a row of the file
LocalizedRow(row, zone) ==
    LET local == LocalInstant(row["gmt_datetime"].v, zone)
        date == local \div 24
        added == [local_datetime |-> local,
                  date |-> date,
                  month |-> MonthOf(date),
                  hour |-> local % 24,
                  season |-> determine_season(MonthOf(date))]
    IN [col \in DOMAIN row \cup DOMAIN added |->
           IF col \in DOMAIN added THEN added[col] ELSE row[col]]

\* load_data(csv_file): df, metadata, timezone_str
load_data_csv(file, data) ==
    IF "gmt_datetime" \notin file.columns THEN Raises("KeyError")
    ELSE LET metadata == extract_metadata_df(file)
         IN IF metadata.raised # "none" THEN Raises(metadata.raised)
            ELSE LET timezone_str ==
                         CheckedZone(timezone_at(metadata.value.latitude,
                                                 metadata.value.longitude, data))
                 IN IF timezone_str.raised # "none"
                    THEN Raises(timezone_str.raised)
                    ELSE Returns(
                        [df |-> [i \in 1..Len(file.rows) |->
                                    LocalizedRow(file.rows[i], timezone_str.value.v)],
                         columns |-> file.columns
                             \cup {"local_datetime", "date", "month", "hour", "season"},
                         metadata |-> metadata.value,
                         timezone_str |-> timezone_str.value])

(***************************************************************************)
(* The key metrics.  An average is an exact quotient num / den, or NaN.    *)
(***************************************************************************)
RECURSIVE GCD(_, _)
GCD(a, b) == IF b = 0 THEN a ELSE GCD(b, a % b)

\* The quotient n / d (n >= 0, d > 0) in lowest terms
Quotient(n, d) ==
    [t |-> "num", num |-> n \div GCD(n, d), den |-> d \div GCD(n, d)]

Plus(x, y) == Quotient(x.num * y.den + y.num * x.den, x.den * y.den)

\* Python's round(x) of a float: ValueError for NaN, and the even
\* neighbour when x is half-way between two integers
PyRound(x) ==
    IF x = NaN THEN Raises("ValueError")
    ELSE LET q == x.num \div x.den
             r == x.num % x.den
         IN Returns(IF 2 * r < x.den THEN q
                    ELSE IF 2 * r > x.den THEN q + 1
                    ELSE IF q % 2 = 0 THEN q ELSE q + 1)

\* The rows of df whose liters is a number: mean() and sum() skip the others
Usable(rows, sel) == {i \in sel : rows[i]["liters"] # NaN}

\* The sum of liters over the rows sel, all usable
RECURSIVE SumLitersOver(_, _)
SumLitersOver(rows, sel) ==
    IF sel = {} THEN 0
    ELSE LET i == CHOOSE k \in sel : TRUE
         IN rows[i]["liters"].v + SumLitersOver(rows, sel \ {i})

\* The sum of the quotients of a function over the keys
RECURSIVE SumQuotients(_, _)
SumQuotients(f, keys) ==
    IF keys = {} THEN Quotient(0, 1)
    ELSE LET k == CHOOSE x \in keys : TRUE
         IN Plus(f[k], SumQuotients(f, keys \ {k}))

\* Series.mean(): the mean of the entries that are not NaN, NaN if none is
SeriesMean(f) ==
    LET keys == {k \in DOMAIN f : f[k] # NaN}
        total == SumQuotients(f, keys)
    IN IF keys = {} THEN NaN
       ELSE Quotient(total.num, total.den * Cardinality(keys))

\* data.groupby('hour')['liters'].mean(): hour -> mean of its usable liters
HourlyMeans(rows, sel) ==
    [h \in {rows[i]["hour"] : i \in sel} |->
        LET of_hour == Usable(rows, {i \in sel : rows[i]["hour"] = h})
        IN IF of_hour = {} THEN NaN
           ELSE Quotient(SumLitersOver(rows, of_hour), Cardinality(of_hour))]

\* data.groupby('date')['liters'].sum(): date -> sum of its usable liters
DailySums(rows, sel) ==
    [d \in {rows[i]["date"] : i \in sel} |->
        Quotient(SumLitersOver(rows, Usable(rows, {i \in sel : rows[i]["date"] = d})), 1)]

\* df['date'].max(), NaN of an empty frame
MaxDate(rows) ==
    IF rows = << >> THEN NaN
    ELSE LET dates == {rows[i]["date"] : i \in 1..Len(rows)}
         IN CHOOSE d \in dates : \A e \in dates : e <= d

\* A variant of recent_day_data that takes the last 24 rows
last_24_rows(rows) == {i \in 1..Len(rows) : i > Len(rows) - 24}

\* df[df['date'] == df['date'].max()]
recent_day_data(rows) ==
    IF rows = << >> THEN {}
    ELSE {i \in 1..Len(rows) : rows[i]["date"] = MaxDate(rows)}

\* The days of the window of the 7-day metrics
WindowDays == 7

\* A variant of last_7_days that takes the last seven dates there are
last_7_dates(rows) ==
    LET dates == {rows[i]["date"] : i \in 1..Len(rows)}
        newest == {d \in dates :
                      Cardinality({e \in dates : e > d}) < WindowDays}
    IN {i \in 1..Len(rows) : rows[i]["date"] \in newest}

\* df[df['date'] >= (df['date'].max() - pd.Timedelta(days=7))]
last_7_days(rows) ==
    IF rows = << >> THEN {}
    ELSE {i \in 1..Len(rows) : rows[i]["date"] >= MaxDate(rows) - WindowDays}

avg_liters_hour_recent_day(rows) ==
    SeriesMean(HourlyMeans(rows, recent_day_data(rows)))

avg_liters_hour_7_days(rows) ==
    SeriesMean(HourlyMeans(rows, last_7_days(rows)))

avg_liters_day_7_days(rows) ==
    SeriesMean(DailySums(rows, last_7_days(rows)))

\* The liters a person uses in a day
LitersPerPerson == 15

\* A variant of est_beneficiaries that cuts the quotient off
est_beneficiaries_floor(rows) ==
    LET avg == avg_liters_day_7_days(rows)
    IN IF avg = NaN THEN Raises("ValueError")
       ELSE Returns(avg.num \div (avg.den * LitersPerPerson))

\* round(avg_liters_day_7_days / 15)
est_beneficiaries(rows) ==
    LET avg == avg_liters_day_7_days(rows)
    IN IF avg = NaN THEN PyRound(NaN)
       ELSE PyRound(Quotient(avg.num, avg.den * LitersPerPerson))

\* calculate_key_metrics(df)
calculate_key_metrics(frame) ==
    IF "liters" \notin frame.columns THEN Raises("KeyError")
    ELSE LET beneficiaries == est_beneficiaries(frame.df)
             hour_recent == PyRound(avg_liters_hour_recent_day(frame.df))
             hour_7 == PyRound(avg_liters_hour_7_days(frame.df))
             day_7 == PyRound(avg_liters_day_7_days(frame.df))
         IN IF beneficiaries.raised # "none" THEN Raises(beneficiaries.raised)
            ELSE IF hour_recent.raised # "none" THEN Raises(hour_recent.raised)
            ELSE IF hour_7.raised # "none" THEN Raises(hour_7.raised)
            ELSE IF day_7.raised # "none" THEN Raises(day_7.raised)
            ELSE Returns(
                [avg_liters_hour_recent_day |-> hour_recent.value,
                 avg_liters_hour_7_days |-> hour_7.value,
                 avg_liters_day_7_days |-> day_7.value,
                 estimated_beneficiaries |-> beneficiaries.value])

\* df[df['red_flag'] == 1].shape[0]: the number of rows whose red_flag is 1
red_flag_events(rows) ==
    Cardinality({i \in 1..Len(rows) : rows[i]["red_flag"] = PyInt(1)})

\* df['local_datetime'].max(), NaN of an empty frame
last_reading(rows) ==
    IF rows = << >> THEN NaN
    ELSE LET instants == {rows[i]["local_datetime"] : i \in 1..Len(rows)}
         IN CHOOSE t \in instants : \A u \in instants : u <= t

\* create_dashboard_layout(df, metadata, timezone_str, key_metrics,
\* seasonal_averages), up to the exception it lets escape: the red flag
\* count indexes df['red_flag'], the scatter plot names the column
\* 'temperature'.  Of the layout that is returned the model keeps the
\* warning box: "Last Reading: ..." and
\* "Red Flag Events (Last 30 Days): ...".
create_dashboard_layout(frame) ==
    IF "red_flag" \notin frame.columns THEN Raises("KeyError")
    ELSE IF "temperature" \notin frame.columns THEN Raises("ValueError")
    ELSE Returns([last_reading |-> last_reading(frame.df),
                  red_flag_events |-> red_flag_events(frame.df)])

\* The rows of df as calculate_seasonal_averages reads them: its sums skip
\* the liters that are NaN
SeasonRows(rows) ==
    [i \in 1..Len(rows) |->
        [date |-> rows[i]["date"], month |-> rows[i]["month"],
         season |-> rows[i]["season"],
         liters |-> IF rows[i]["liters"] = NaN THEN 0 ELSE rows[i]["liters"].v]]

NotComputed == [t |-> "not computed"]

\* What create_dashboard has made: the step that raised and the exception,
\* and the value of each step that returned
Made(stage, raised, loaded, key_metrics, averages, layout) ==
    [stage |-> stage, raised |-> raised, loaded |-> loaded,
     key_metrics |-> key_metrics, seasonal_averages |-> averages,
     layout |-> layout]

\* create_dashboard(csv_file), and the same four calls of render_page
create_dashboard(file, data) ==
    LET loaded == load_data_csv(file, data)
        key_metrics == calculate_key_metrics(loaded.value)
        averages == calculate_seasonal_averages(SeasonRows(loaded.value.df))
        layout == create_dashboard_layout(loaded.value)
    IN IF loaded.raised # "none"
       THEN Made("load_data", loaded.raised,
                 NotComputed, NotComputed, NotComputed, NotComputed)
       ELSE IF key_metrics.raised # "none"
       THEN Made("calculate_key_metrics", key_metrics.raised,
                 loaded.value, NotComputed, NotComputed, NotComputed)
       ELSE IF layout.raised # "none"
       THEN Made("create_dashboard_layout", layout.raised,
                 loaded.value, key_metrics.value, averages, NotComputed)
       ELSE Made("done", "none",
                 loaded.value, key_metrics.value, averages, layout.value)

\* Rows of a file whose cells are chosen one by one
MaxRows == 3

\* Readings of a file that follows a profile
MaxFileReadings == 26

\* The coordinates the sensor reports in its i-th row
PlaceOfRow(i) ==
    CASE i = 1 -> <<-1, 37>>
      [] i = 2 -> <<19, -99>>
      [] i = 3 -> <<-30, -140>>
      [] OTHER -> <<0, 0>>

\* The row of all columns, cut to the columns of the file
RowOf(columns, gmt, lat, lng, name, liters) ==
    [col \in columns |->
        CASE col = "gmt_datetime" -> PyInt(gmt)
          [] col = "latitude" -> lat
          [] col = "longitude" -> lng
          [] col \in DescriptiveColumns -> name
          [] col = "liters" -> liters
          [] col = "temperature" -> PyInt(20)
          [] OTHER -> PyInt(0)]

\* The sensor writes a row: the descriptive cells hold name, the latitude
\* and the longitude are there or not
WriteRow(name, has_lat, has_lng) ==
    /\ dashboard.stage = "none"
    /\ profile.kind = "cells"
    /\ Len(csv_file.rows) < MaxRows
    /\ LET i == Len(csv_file.rows) + 1
           row == RowOf(csv_file.columns, 24 * i,
                        IF has_lat THEN PyInt(PlaceOfRow(i)[1]) ELSE NaN,
                        IF has_lng THEN PyInt(PlaceOfRow(i)[2]) ELSE NaN,
                        name, PyInt(10))
       IN csv_file' = [csv_file EXCEPT !.rows = Append(@, row)]
    /\ UNCHANGED <<tzdata, dashboard, profile>>
    /\ UNCHANGED <<diskVars, sessionVars, actor, seasonVars, fetchVars>>

\* The liters of the i-th reading of a profile
LitersOfReading(pattern, i) ==
    CASE pattern = "ten" -> PyInt(10)
      [] pattern = "1500" -> PyInt(1500)
      [] pattern = "varying" -> PyInt(5 * (1 + (i % 4)))
      [] pattern = "some_nan" -> IF i % 3 = 0 THEN NaN ELSE PyInt(7 * i)
      [] OTHER -> NaN

\* The red_flag of the i-th reading of a profile: the first reading and
\* every fourth after it are flagged
RedFlagOfReading(i) == IF i % 4 = 1 THEN PyInt(1) ELSE PyInt(0)

\* The sensor writes the next reading of its profile
WriteReading ==
    /\ dashboard.stage = "none"
    /\ profile.kind = "readings"
    /\ Len(csv_file.rows) < MaxFileReadings
    /\ LET i == Len(csv_file.rows) + 1
           cells == RowOf(csv_file.columns, profile.next,
                          PyInt(profile.place[1]), PyInt(profile.place[2]),
                          PyStr("K"), LitersOfReading(profile.liters, i))
           row == [cells EXCEPT !["red_flag"] = RedFlagOfReading(i)]
           step == profile.steps[1 + (i % Len(profile.steps))]
       IN /\ csv_file' = [csv_file EXCEPT !.rows = Append(@, row)]
          /\ profile' = [profile EXCEPT !.next = @ + step]
    /\ UNCHANGED <<tzdata, dashboard>>
    /\ UNCHANGED <<diskVars, sessionVars, actor, seasonVars, fetchVars>>

\* The dashboard is made of the file as it is
CreateDashboard ==
    /\ dashboard.stage = "none"
    /\ profile.kind # "none"
    /\ dashboard' = create_dashboard(csv_file, tzdata)
    /\ UNCHANGED <<csv_file, tzdata, profile>>
    /\ UNCHANGED <<diskVars, sessionVars, actor, seasonVars, fetchVars>>

\* The cells of the descriptive columns
Names == {NaN, PyStr("A"), PyStr("B")}

\* The hours between the readings of a profile, in turn
StepCycles == {<<1>>, <<0, 1, 1>>, <<5>>, <<24>>, <<24, 24, 192>>}

LitersPatterns == {"ten", "1500", "varying", "some_nan", "all_nan"}

\* 21:00 UTC of 31 January and 0:00 UTC of 1 February
StartInstants == {24 * 30 + 21, 24 * 31}

\* The files: of every column or of all but one, with the zone data of
\* either kind, and with rows whose cells are chosen or readings that
\* follow a profile
InitFile ==
    /\ InitSessions({DirOf("ok", "absent")}, {ConfigAb}, {FALSE})
    /\ df = << >>
    /\ seasonal_averages = << >>
    /\ next_day = 0
    /\ shape = "plain"
    /\ NoFetch
    /\ dashboard = [stage |-> "none"]
    /\ \/ /\ profile = [kind |-> "cells"]
          /\ \E columns \in {AllColumns} \cup {AllColumns \ {c} : c \in AllColumns} :
                csv_file = [columns |-> columns, rows |-> << >>]
          /\ tzdata \in {"oceans", "land"}
          /\ tzdata = "land" => csv_file.columns = AllColumns
       \/ /\ \E place \in {<<-1, 37>>, <<19, -99>>}, start \in StartInstants,
               steps \in StepCycles, liters \in LitersPatterns :
                profile = [kind |-> "readings", place |-> place, next |-> start,
                           steps |-> steps, liters |-> liters]
          /\ csv_file = [columns |-> AllColumns, rows |-> << >>]
          /\ tzdata = "oceans"

NextFile ==
    \/ \E name \in Names, has_lat, has_lng \in BOOLEAN :
          WriteRow(name, has_lat, has_lng)
    \/ WriteReading
    \/ CreateDashboard

SpecFile == InitFile /\ [][NextFile]_vars

(***************************************************************************)
(* The claims about the file and the dashboard                             *)
(***************************************************************************)

\* The dashboard was made and load_data returned
Loaded == dashboard.stage \notin {"none", "load_data"}

\* The index of the first row of the file that holds the cell in the column
FirstAt(col, cell) ==
    CHOOSE i \in 1..Len(csv_file.rows) :
        /\ csv_file.rows[i][col] = cell
        /\ \A j \in 1..(i - 1) : csv_file.rows[j][col] # cell

\* The values of a column that no other value occurs more often than
MostFrequent(col) ==
    LET cells == {csv_file.rows[i][col] : i \in 1..Len(csv_file.rows)} \ {NaN}
        n(v) == Cardinality({i \in 1..Len(csv_file.rows) : csv_file.rows[i][col] = v})
    IN {v \in cells : \A w \in cells : n(w) <= n(v)}

\* C11 as stated: the metadata of a loaded file gives, for each descriptive
\* column with a value, a most frequent non-null value of the column, and
\* among several most frequent ones the one that appears first in the file.
C11_ModeTieGoesToFirstInInput ==
    Loaded =>
        \A col \in DescriptiveColumns \cap csv_file.columns :
            MostFrequent(col) # {} =>
                /\ dashboard.loaded.metadata[col] \in MostFrequent(col)
                /\ \A w \in MostFrequent(col) :
                      FirstAt(col, dashboard.loaded.metadata[col]) <= FirstAt(col, w)

\* The column is in the file and none of its cells holds a value
AllNull(col) ==
    /\ col \in csv_file.columns
    /\ \A i \in 1..Len(csv_file.rows) : csv_file.rows[i][col] = NaN

\* The dashboard was made and extract_metadata raised
ExtractFailed ==
    /\ dashboard.stage = "load_data"
    /\ dashboard.raised = "KeyError"
    /\ "gmt_datetime" \in csv_file.columns

\* The columns extract_metadata indexes without a test
IndexedColumns ==
    {"latitude", "longitude"} \cup (DescriptiveColumns \ {"installation_date"})

\* C12 as stated: a descriptive column that is absent from the file, or all
\* of whose cells are null, does not make extract_metadata fail, and its
\* field is "Unknown".
C12_AbsentOrNullIsUnknown ==
    \A col \in DescriptiveColumns :
        (dashboard.stage # "none" /\ (col \notin csv_file.columns \/ AllNull(col)))
            => /\ ~ExtractFailed
               /\ Loaded => dashboard.loaded.metadata[col] = Unknown

\* C12 as amended: a descriptive column all of whose cells are null gives
\* "Unknown"; an absent installation_date gives "Unknown" too; an absent
\* community_name, service_provider, water_point_name, model or qr_code
\* makes extract_metadata raise KeyError; and extract_metadata raises for
\* no other reason than a column it indexes being absent.
C12_NullIsUnknownAbsentRaises ==
    dashboard.stage # "none" =>
        /\ \A col \in DescriptiveColumns :
              (Loaded /\ (AllNull(col) \/ col \notin csv_file.columns))
                  => dashboard.loaded.metadata[col] = Unknown
        /\ \A col \in DescriptiveColumns \ {"installation_date"} :
              col \notin csv_file.columns => ~Loaded
        /\ ExtractFailed <=>
              (/\ "gmt_datetime" \in csv_file.columns
               /\ ~(IndexedColumns \subseteq csv_file.columns))

\* A file without the column installation_date, with rows, and no value in
\* the column community_name, was loaded with "Unknown" for both
C12_Witness ==
    /\ Loaded
    /\ "installation_date" \notin csv_file.columns
    /\ csv_file.rows # << >>
    /\ AllNull("community_name")
    /\ dashboard.loaded.metadata["installation_date"] = Unknown
    /\ dashboard.loaded.metadata["community_name"] = Unknown

\* The rows of the file that hold both a latitude and a longitude
RowsWithBoth ==
    {i \in 1..Len(csv_file.rows) :
        /\ csv_file.rows[i]["latitude"] # NaN
        /\ csv_file.rows[i]["longitude"] # NaN}

\* The coordinates of the first row that holds both, (0, 0) if none does
FirstCoordinates ==
    IF RowsWithBoth = {} THEN <<PyInt(0), PyInt(0)>>
    ELSE LET i == CHOOSE k \in RowsWithBoth : \A j \in RowsWithBoth : k <= j
         IN <<csv_file.rows[i]["latitude"], csv_file.rows[i]["longitude"]>>

\* The dashboard was made of a file that has the columns load_data and
\* extract_metadata index
MadeOfIndexedColumns ==
    /\ dashboard.stage # "none"
    /\ IndexedColumns \cup {"gmt_datetime"} \subseteq csv_file.columns

C13_LoadedAtZeroZero ==
    /\ Loaded
    /\ csv_file.rows # << >>
    /\ RowsWithBoth = {}
    /\ dashboard.loaded.metadata.latitude = PyInt(0)
    /\ dashboard.loaded.timezone_str = PyStr("Etc/GMT")

\* C14: when the zone data has no zone for the coordinates of the file,
\* load_data raises ValueError and nothing is made after it: no frame of
\* localized readings, no key metrics, no seasonal averages, no layout; and
\* a file that was loaded has the zone of its coordinates, never another.
C14_NoZoneAbortsTheLoad ==
    MadeOfIndexedColumns =>
        /\ timezone_at(FirstCoordinates[1], FirstCoordinates[2], tzdata) = None
              => /\ dashboard.stage = "load_data"
                 /\ dashboard.raised = "ValueError"
                 /\ dashboard.loaded = NotComputed
                 /\ dashboard.key_metrics = NotComputed
                 /\ dashboard.seasonal_averages = NotComputed
                 /\ dashboard.layout = NotComputed
        /\ Loaded
              => /\ dashboard.loaded.timezone_str # None
                 /\ dashboard.loaded.timezone_str =
                        timezone_at(dashboard.loaded.metadata.latitude,
                                    dashboard.loaded.metadata.longitude, tzdata)

\* The third row is the first to hold both coordinates, a point at sea
\* that the zone data has no zone for, and the load raised ValueError
C14_Witness ==
    /\ tzdata = "land"
    /\ RowsWithBoth = {3}
    /\ FirstCoordinates = <<PyInt(-30), PyInt(-140)>>
    /\ dashboard.stage = "load_data"
    /\ dashboard.raised = "ValueError"
    /\ dashboard.key_metrics = NotComputed

\* The hours that the clocks of the zones are ahead of UTC
HoursAhead ==
    [z \in {"Africa/Nairobi", "Africa/Khartoum", "America/Mexico_City",
            "Etc/GMT", "Etc/GMT+7", "Etc/GMT+9"} |->
        CASE z = "Africa/Nairobi" -> 3
          [] z = "Africa/Khartoum" -> 2
          [] z = "America/Mexico_City" -> -6
          [] z = "Etc/GMT+7" -> -7
          [] z = "Etc/GMT+9" -> -9
          [] OTHER -> 0]

\* C15: in a loaded file the date, the month and the hour of every reading
\* are those of its instant on the clock of the file's zone, not those of
\* its UTC instant; its season is the season of that local month, and the
\* most recent day of the key metrics is the latest local date.
C15_BucketsAreLocal ==
    Loaded =>
        LET ahead == HoursAhead[dashboard.loaded.timezone_str.v]
            rows == dashboard.loaded.df
        IN /\ Len(rows) = Len(csv_file.rows)
           /\ \A i \in 1..Len(rows) :
                 LET local == csv_file.rows[i]["gmt_datetime"].v + ahead
                 IN /\ rows[i]["date"] = local \div 24
                    /\ rows[i]["hour"] = local % 24
                    /\ rows[i]["month"] = MonthOf(local \div 24)
                    /\ rows[i]["season"] = SeasonTable[MonthOf(local \div 24)]
           /\ \A i \in recent_day_data(rows), j \in 1..Len(rows) :
                 csv_file.rows[j]["gmt_datetime"].v + ahead
                     < 24 * (((csv_file.rows[i]["gmt_datetime"].v + ahead) \div 24) + 1)

\* A reading of 21:00 UTC on 31 January, loaded in the zone of Nairobi, is
\* of 0:00 on 1 February: another day, month and hour than in UTC
C15_Witness ==
    /\ Loaded
    /\ dashboard.loaded.timezone_str = PyStr("Africa/Nairobi")
    /\ \E i \in 1..Len(csv_file.rows) :
          /\ csv_file.rows[i]["gmt_datetime"] = PyInt(24 * 30 + 21)
          /\ dashboard.loaded.df[i]["date"] = 31
          /\ dashboard.loaded.df[i]["month"] = 2
          /\ dashboard.loaded.df[i]["hour"] = 0

\* The readings of the loaded file, and those with a number of liters
Readings == dashboard.loaded.df
WithLiters(sel) == {i \in sel : Readings[i]["liters"] # NaN}

\* The latest local date of the loaded file
LatestDate ==
    CHOOSE d \in {Readings[i]["date"] : i \in 1..Len(Readings)} :
        \A i \in 1..Len(Readings) : Readings[i]["date"] <= d

\* The sum of the liters of the readings sel
RECURSIVE TotalLiters(_)
TotalLiters(sel) ==
    IF sel = {} THEN 0
    ELSE LET i == CHOOSE k \in sel : \A j \in sel : k <= j
         IN Readings[i]["liters"].v + TotalLiters(sel \ {i})

\* The sum, over the hours, of the average of the liters of the readings of
\* sel in that hour
RECURSIVE SumOfHourAverages(_, _)
SumOfHourAverages(hours, sel) ==
    IF hours = {} THEN Quotient(0, 1)
    ELSE LET h == CHOOSE x \in hours : \A y \in hours : x <= y
             in_hour == {i \in sel : Readings[i]["hour"] = h}
         IN Plus(Quotient(TotalLiters(in_hour), Cardinality(in_hour)),
                 SumOfHourAverages(hours \ {h}, sel))

\* The average, over the hours present, of the per-hour average of liters
AverageOfHourAverages(sel) ==
    LET hours == {Readings[i]["hour"] : i \in WithLiters(sel)}
        total == SumOfHourAverages(hours, WithLiters(sel))
    IN Quotient(total.num, total.den * Cardinality(hours))

\* calculate_key_metrics returned
MetricsMade == dashboard.stage \in {"create_dashboard_layout", "done"}

\* C16: the hourly average of the most recent day is made of the readings
\* whose local date is the latest local date of the file and of no other:
\* it is the average, over the hours of that day, of the average of the
\* liters of the hour, and the metric shown is that number rounded.
C16_RecentDayIsTheLatestLocalDate ==
    MetricsMade =>
        LET recent == {i \in 1..Len(Readings) : Readings[i]["date"] = LatestDate}
        IN /\ avg_liters_hour_recent_day(Readings) = AverageOfHourAverages(recent)
           /\ dashboard.key_metrics.avg_liters_hour_recent_day
                  = PyRound(AverageOfHourAverages(recent)).value

\* The latest local day of the file has 24 readings, one in each hour,
\* each of 10 liters, and the metric is 10
C16_Witness ==
    /\ MetricsMade
    /\ LET recent == {i \in 1..Len(Readings) : Readings[i]["date"] = LatestDate}
       IN /\ Cardinality(recent) = 24
          /\ {Readings[i]["hour"] : i \in recent} = 0..23
          /\ \A i \in recent : Readings[i]["liters"] = PyInt(10)
    /\ avg_liters_hour_recent_day(Readings) = Quotient(10, 1)
    /\ dashboard.key_metrics.avg_liters_hour_recent_day = 10

\* The readings whose local date d has LatestDate - 7 <= d <= LatestDate
SevenDayWindow ==
    {i \in 1..Len(Readings) :
        /\ LatestDate - 7 <= Readings[i]["date"]
        /\ Readings[i]["date"] <= LatestDate}

\* The average, over the dates present, of the per-date sum of liters
AverageOfDaySums(sel) ==
    Quotient(TotalLiters(WithLiters(sel)),
             Cardinality({Readings[i]["date"] : i \in sel}))

\* C17: the 7-day metrics are made of exactly the readings whose local date
\* d has max_date - 7 <= d <= max_date, counted in calendar days: neither
\* of fewer (a reading of max_date - 7 is in) nor of more (one of
\* max_date - 8 is out, however few dates the range holds).
C17_WindowIsSevenCalendarDays ==
    MetricsMade =>
        /\ last_7_days(Readings) = SevenDayWindow
        /\ avg_liters_hour_7_days(Readings) = AverageOfHourAverages(SevenDayWindow)
        /\ avg_liters_day_7_days(Readings) = AverageOfDaySums(SevenDayWindow)
        /\ dashboard.key_metrics.avg_liters_hour_7_days
               = PyRound(AverageOfHourAverages(SevenDayWindow)).value
        /\ dashboard.key_metrics.avg_liters_day_7_days
               = PyRound(AverageOfDaySums(SevenDayWindow)).value

\* The file has a reading of max_date - 7, which is in the window, and one
\* of max_date - 8, which is not
C17_Witness ==
    /\ MetricsMade
    /\ \E i, j \in 1..Len(Readings) :
          /\ Readings[i]["date"] = LatestDate - 7
          /\ Readings[j]["date"] = LatestDate - 8
          /\ i \in last_7_days(Readings)
          /\ j \notin last_7_days(Readings)
          /\ Readings[j]["liters"] # NaN

\* The range holds readings of three dates only, and the reading of
\* max_date - 10 stays out of the window
C17_GapsDoNotExtendTheWindow ==
    /\ MetricsMade
    /\ Cardinality({Readings[i]["date"] : i \in last_7_days(Readings)}) = 3
    /\ \E j \in 1..Len(Readings) :
          /\ Readings[j]["date"] = LatestDate - 10
          /\ j \notin last_7_days(Readings)

\* C18: the estimated beneficiaries are the average, over the dates of the
\* window, of the per-date sum of liters, divided by 15 and rounded to the
\* nearest integer: no integer is nearer to the quotient.
C18_BeneficiariesAreDayAverageOverFifteen ==
    MetricsMade =>
        LET avg == AverageOfDaySums(SevenDayWindow)
            est == dashboard.key_metrics.estimated_beneficiaries
            off == est * 15 * avg.den - avg.num
        IN /\ est = est_beneficiaries(Readings).value
           /\ 2 * off <= 15 * avg.den
           /\ -2 * off <= 15 * avg.den

\* Ten days of data with 1500 liters a day: the average is 1500 and the
\* estimate is 100
C18_Witness ==
    /\ MetricsMade
    /\ Cardinality({Readings[i]["date"] : i \in 1..Len(Readings)}) = 10
    /\ avg_liters_day_7_days(Readings) = Quotient(1500, 1)
    /\ dashboard.key_metrics.estimated_beneficiaries = 100

\* The window of the metric of the most recent day holds no reading with a
\* number of liters: the file has no rows, or the rows of its latest date
\* have none
NoUsableReading ==
    IF Readings = << >> THEN TRUE
    ELSE WithLiters({i \in 1..Len(Readings) : Readings[i]["date"] = LatestDate}) = {}

\* C19 as stated: when the window of a metric holds no reading,
\* calculate_key_metrics raises nothing (and returns the metric as an
\* absent value).
C19_EmptyWindowRaisesNothing ==
    (Loaded /\ "liters" \in csv_file.columns /\ NoUsableReading)
        => dashboard.stage # "calculate_key_metrics"

\* The columns a reading file is required to have
RequiredColumns == AllColumns \ {"installation_date"}

\* C20 as stated: when a required column is missing from the file (a file
\* with readings), the load itself aborts, before any metric or view is
\* made.
C20_MissingColumnAbortsTheLoad ==
    (/\ dashboard.stage # "none"
     /\ csv_file.rows # << >>
     /\ ~(RequiredColumns \subseteq csv_file.columns))
        => /\ dashboard.stage = "load_data"
           /\ dashboard.raised = "KeyError"
           /\ dashboard.key_metrics = NotComputed

\* The columns whose absence load_data does abort on, and the file without
\* installation_date that is loaded
C20_IndexedColumnsAbortTheLoad ==
    dashboard.stage # "none" =>
        /\ ~(IndexedColumns \cup {"gmt_datetime"} \subseteq csv_file.columns)
              => (dashboard.stage = "load_data" /\ dashboard.raised = "KeyError")
        /\ (csv_file.columns = AllColumns \ {"installation_date"} /\ tzdata = "oceans")
              => Loaded

(***************************************************************************)
(* The claims about the router, continued.                                 *)
(***************************************************************************)
\* The session sees a message: a page that render_page returned to tell
\* of the error, or the error in the dev tools.
MessageShown(s) ==
    \/ page_content[s].kind = "error"
    \/ dev_tools_error(debug, fault[s])

\* The render of a sensor view that ran last for the session raised
RenderOfSensorViewRaised(s) ==
    /\ ~pending[s]
    /\ route[s].kind = "sensor"
    /\ fault[s] \in {"KeyError", "ValueError"}

\* C21 as stated: when the load of a sensor's dataset raises a data-format
\* or timezone error while a sensor view is rendered, the render ends in a
\* state that shows the user a message.
C21_FailedRenderShowsAMessage ==
    \A s \in Sessions : RenderOfSensorViewRaised(s) => MessageShown(s)

\* The rest of C21: the render that raised leaves the session's auth-state
\* and pathname as they were, and the session's next events are served: a
\* navigation to the landing page is rendered.
C21_FailedRenderKeepsTheSession ==
    [][\A s \in Sessions :
          /\ (pending[s] /\ ~pending'[s] /\ fault'[s] # "none")
                => (auth_state'[s] = auth_state[s] /\ pathname'[s] = pathname[s])
          /\ (RenderOfSensorViewRaised(s) /\ dataDir = DirOf("ok", "no_tz"))
                => ENABLED Navigate(s, RootPath)]_vars

\* A sensor view raised and the landing page stayed on the screen
C21_Witness ==
    /\ RenderOfSensorViewRaised("s1")
    /\ fault["s1"] = "ValueError"
    /\ page_content["s1"] = Landing
    /\ ~debug

\* C24: while a session's authenticated flag is false, every render of the
\* session, whatever its path, selects and shows the login view and raises
\* nothing: the session shows the login view (or the blank page before its
\* first render), never the landing list, a sensor view or the 404 view,
\* and no render of it reached the code that reads a sensor's file.
C24_UnauthenticatedSeesOnlyLogin ==
    \A s \in Sessions :
        ~auth_state[s].authenticated =>
            /\ page_content[s] \in {Blank, login_layout}
            /\ route[s] \in {Blank, login_layout}
            /\ fault[s] = "none"
            /\ ~pending[s] => (page_content[s] = login_layout
                                 /\ route[s] = login_layout)

\* An unauthenticated session at the path of a sensor whose file exists was
\* rendered
C24_Witness ==
    /\ ~auth_state["s1"].authenticated
    /\ pathname["s1"] = SensorPath("5")
    /\ dataset_exists(dataDir, "5")
    /\ ~pending["s1"]
    /\ last["s1"] = Navigated

\* C25: a step of a session that finds authenticated true and leaves it
\* false is the loss of the session's storage; a submit (with any password),
\* a navigation, a select, a Go and a render leave it true.
C25_AuthenticatedUntilTheSessionEnds ==
    [][\A s \in Sessions :
          (auth_state[s].authenticated /\ ~auth_state'[s].authenticated)
              => (last'[s] = PageLoaded /\ page_content'[s] = Blank
                    /\ n_clicks'[s] = 0)]_vars

\* An authenticated session submitted a password that is not in the list and
\* is authenticated still
C25_Witness ==
    /\ auth_state["s1"].authenticated
    /\ last["s1"].ev = "submit"
    /\ last["s1"].was_auth
    /\ last["s1"].password \in {None, PyStr(""), PyStr("zz")}
    /\ login_message["s1"] = IncorrectPassword

(***************************************************************************)
(* The claims about the file and the dashboard, continued.                 *)
(***************************************************************************)
\* The days the warning box names: "Red Flag Events (Last 30 Days)"
RedFlagDays == 30

\* The readings of the loaded file with red_flag = 1 whose local date lies
\* in the days that end at the date of the most recent reading
RedFlagsOfLastDays ==
    {i \in 1..Len(Readings) :
        /\ Readings[i]["red_flag"] = PyInt(1)
        /\ Readings[i]["date"] > LatestDate - RedFlagDays}

\* C26 as stated: the number shown as "Red Flag Events (Last 30 Days)" is
\* the number of readings with red_flag = 1 whose local date lies within
\* the 30 days that end at the most recent reading; older red flags are not
\* counted.
C26_RedFlagCountIsOfLast30Days ==
    (dashboard.stage = "done" /\ Readings # << >>)
        => dashboard.layout.red_flag_events = Cardinality(RedFlagsOfLastDays)

\* What the view does show: the number of all readings with red_flag = 1,
\* which is the claimed number as long as the file spans no more than 30
\* days
C26_RedFlagCountIsOfAllReadings ==
    (dashboard.stage = "done" /\ Readings # << >>)
        => /\ dashboard.layout.red_flag_events
                 = Cardinality({i \in 1..Len(Readings) :
                                   Readings[i]["red_flag"] = PyInt(1)})
           /\ (\A i \in 1..Len(Readings) :
                    Readings[i]["date"] > LatestDate - RedFlagDays)
                 => dashboard.layout.red_flag_events
                       = Cardinality(RedFlagsOfLastDays)

(***************************************************************************)
(* Part 4.  The data directory: the fetcher writes a sensor's file, the    *)
(* landing page lists the files, a listed sensor is opened.                *)
(*                                                                         *)
(* A file name and a sensor identifier are modelled by their split('-'):   *)
(* "sensor-5-hourly-logs.csv" is <<"sensor", "5", "hourly", "logs.csv">>,  *)
(* the identifier "12-34" is <<"12", "34">>.  No piece holds a hyphen or a *)
(* slash, and no identifier is the empty string.                           *)
(***************************************************************************)
\* construct_output_file(output_dir, qr_code, start_datetime): the name of
\* the file in output_dir, f"sensor-{qr_code}-hourly-logs.csv"
construct_output_file(qr_code) ==
    <<"sensor">> \o qr_code \o <<"hourly", "logs.csv">>

\* f"sensor-{sensor_id}-hourly-logs.csv" of get_sensor_metadata and of
\* render_page
sensor_file(sensor_id) ==
    <<"sensor">> \o sensor_id \o <<"hourly", "logs.csv">>

\* f.startswith("sensor-")
startswith_sensor(f) == Len(f) >= 2 /\ f[1] = "sensor"

\* f.endswith("-hourly-logs.csv")
endswith_hourly_logs(f) ==
    Len(f) >= 3 /\ f[Len(f) - 1] = "hourly" /\ f[Len(f)] = "logs.csv"

\* f.split('-')[1], as an identifier
split_1(f) == <<f[2]>>

\* The test of a Python list comprehension, as SelectSeq takes it
IsSensorFile(f) == startswith_sensor(f) /\ endswith_hourly_logs(f)

\* get_available_sensors(), of the names os.listdir(DATA_DIR) returned
get_available_sensors_of(listdir) ==
    LET files == SelectSeq(listdir, IsSensorFile)
    IN [i \in 1..Len(files) |-> split_1(files[i])]

\* get_sensor_metadata(), of the names os.listdir(DATA_DIR) returned: an
\* entry for every listed id whose file exists, with the id as sensor_id
get_sensor_metadata_of(listdir) ==
    LET sensor_ids == get_available_sensors_of(listdir)
        exists(i) == \E j \in 1..Len(listdir) :
                        listdir[j] = sensor_file(sensor_ids[i])
        RECURSIVE metadata_list(_)
        metadata_list(n) ==
            IF n = 0 THEN << >>
            ELSE IF exists(n)
                 THEN Append(metadata_list(n - 1), [sensor_id |-> sensor_ids[n]])
                 ELSE metadata_list(n - 1)
    IN metadata_list(Len(sensor_ids))

\* The values of the options of sensor-dropdown in landing_page_layout()
dropdown_options(listdir) ==
    LET sensors == get_sensor_metadata_of(listdir)
    IN [i \in 1..Len(sensors) |-> sensors[i].sensor_id]

\* The orders in which os.listdir may return the names of a directory
RECURSIVE Orders(_)
Orders(names) ==
    IF names = {} THEN {<< >>}
    ELSE UNION {{<<f>> \o o : o \in Orders(names \ {f})} : f \in names}

(***************************************************************************)
(* The API GET /v1/hourly-logs.  The hourly logs of a sensor from the      *)
(* start datetime on are held in pages 1..N; the response for page p       *)
(* carries the logs of the page and next_page_number, p + 1 or null on the *)
(* last page.  A log is modelled by its place <<page, index>>.             *)
(***************************************************************************)
\* The pages of a sensor, of the given numbers of logs
PagesOf(sizes) ==
    [p \in 1..Len(sizes) |-> [i \in 1..sizes[p] |-> <<p, i>>]]

\* response.json() of the request for a page
response_json(api, page) ==
    [hourly_logs |-> api[page],
     next_page_number |-> IF page < Len(api) THEN PyInt(page + 1) ELSE None]

\* A variant of all_logs.extend(logs) that keeps the logs of the last
\* response only
extend_replace(all_logs, logs) == logs

\* all_logs.extend(logs)
extend(all_logs, logs) == all_logs \o logs

\* pd.DataFrame(all_logs).to_csv(output_file, index=False): a row for every
\* log, in the order of the list
to_csv(all_logs) == [rows |-> all_logs]

\* Pages of a sensor, and sensor files in the directory
MaxPages == 3
MaxSensorFiles == 3

\* fetch_sensor_data at the head of its loop
Looping(qr_code, api, page, all_logs, requested) ==
    [pc |-> "loop", qr_code |-> qr_code, api |-> api, page |-> page,
     all_logs |-> all_logs, requested |-> requested]

\* fetch_sensor_data after it returned or raised: why the loop ended, and
\* whether and what it saved
Finished(run, ended, all_logs, requested) ==
    [pc |-> "done", qr_code |-> run.qr_code, api |-> run.api, ended |-> ended,
     all_logs |-> all_logs, requested |-> requested,
     saved |-> ended # "raised" /\ all_logs # << >>,
     csv |-> IF ended # "raised" /\ all_logs # << >>
             THEN to_csv(all_logs) ELSE None]

\* main(): the script is started for a sensor; output_dir is the data
\* directory of the dashboard
StartFetch(qr_code, sizes) ==
    /\ fetch = Idle
    /\ landing = NotListed
    /\ Cardinality({f \in data_files : IsSensorFile(f)}) < MaxSensorFiles
    /\ fetch' = Looping(qr_code, PagesOf(sizes), 1, << >>, << >>)
    /\ UNCHANGED <<data_files, landing, opened>>
    /\ UNCHANGED <<diskVars, sessionVars, actor, seasonVars, fileVars>>

\* One turn of the loop of fetch_sensor_data: the request for
\* params["page"] raises (no connection, no JSON), is answered with a
\* status other than 200, or is answered with the page.  The turn that
\* leaves the loop goes on to save all_logs, if there are any.
Request(outcome) ==
    /\ fetch.pc = "loop"
    /\ LET requested == Append(fetch.requested, fetch.page)
           data == response_json(fetch.api, fetch.page)
           all_logs == extend(fetch.all_logs, data.hourly_logs)
           next_page == data.next_page_number
           done == CASE outcome = "raises" ->
                          Finished(fetch, "raised", fetch.all_logs, requested)
                     [] outcome = "error" ->
                          Finished(fetch, "status", fetch.all_logs, requested)
                     [] ~Truthy(next_page) ->
                          Finished(fetch, "no_next_page", all_logs, requested)
                     [] OTHER ->
                          Looping(fetch.qr_code, fetch.api, next_page.v,
                                  all_logs, requested)
       IN /\ fetch' = done
          /\ data_files' = IF done.pc = "done" /\ done.saved
                           THEN data_files
                                  \cup {construct_output_file(fetch.qr_code)}
                           ELSE data_files
    /\ UNCHANGED <<landing, opened>>
    /\ UNCHANGED <<diskVars, sessionVars, actor, seasonVars, fileVars>>

\* The script exits
FetchExit ==
    /\ fetch.pc = "done"
    /\ fetch' = Idle
    /\ UNCHANGED <<data_files, landing, opened>>
    /\ UNCHANGED <<diskVars, sessionVars, actor, seasonVars, fileVars>>

\* landing_page_layout() for an authenticated session at "/": os.listdir
\* returns the names in some order
ListSensors ==
    /\ fetch = Idle
    /\ landing = NotListed
    /\ \E listdir \in Orders(data_files) :
          landing' = [kind |-> "listed", dir |-> data_files,
                      sensors |-> dropdown_options(listdir)]
    /\ UNCHANGED <<fetch, data_files, opened>>
    /\ UNCHANGED <<diskVars, sessionVars, actor, seasonVars, fileVars>>

\* The i-th option of the dropdown is selected and Go is pressed:
\* navigate_to_dashboard makes the path of its value, render_page takes the
\* sensor_id from the path and opens the sensor's file if it exists
OpenEntry(i) ==
    /\ landing.kind = "listed"
    /\ i \in 1..Len(landing.sensors)
    /\ LET path == SensorPath(landing.sensors[i])
           csv == sensor_file(PathSensorId(path))
       IN opened' = IF StartsWithSensor(path) /\ csv \in data_files
                    THEN [kind |-> "file", entry |-> i, name |-> csv]
                    ELSE [kind |-> "404", entry |-> i]
    /\ UNCHANGED <<fetch, data_files, landing>>
    /\ UNCHANGED <<diskVars, sessionVars, actor, seasonVars, fileVars>>

\* The identifiers the fetcher is started for: 5, 12, 910401, 12-34
QrCodes == {<<"5">>, <<"12">>, <<"910401">>, <<"12", "34">>}

\* The numbers of logs in the pages of a sensor: a page holds no log, one
\* or two
LogCounts == {0, 1, 2}
PageSizes ==
    UNION {[1..n -> LogCounts] : n \in 1..MaxPages}

\* What the data directory holds besides: a text file, and the file of a
\* sensor under another naming (sensor-5-hourly-logs-start.csv)
OtherFiles ==
    {<<"readme.txt">>, <<"sensor", "5", "hourly", "logs", "start.csv">>}

InitFetch ==
    /\ InitSessions({DirOf("ok", "absent")}, {ConfigAb}, {FALSE})
    /\ df = << >>
    /\ seasonal_averages = << >>
    /\ next_day = 0
    /\ shape = "plain"
    /\ NoFile
    /\ fetch = Idle
    /\ data_files = OtherFiles
    /\ landing = NotListed
    /\ opened = NothingOpened

NextFetch ==
    \/ \E qr_code \in QrCodes, sizes \in PageSizes : StartFetch(qr_code, sizes)
    \/ \E outcome \in {"ok", "error", "raises"} : Request(outcome)
    \/ FetchExit
    \/ ListSensors
    \/ \E i \in 1..MaxSensorFiles : OpenEntry(i)

SpecFetch == InitFetch /\ [][NextFetch]_vars

(***************************************************************************)
(* The claims about the data directory and the fetcher.                    *)
(***************************************************************************)
\* The landing page lists the identifier
Listed(qr_code) ==
    \E i \in 1..Len(landing.sensors) : landing.sensors[i] = qr_code

\* C22 as stated: every file of the data directory named
\* sensor-<id>-hourly-logs.csv is listed on the landing page with sensor_id
\* <id>, for every sensor identifier <id>, and the listed identifier names
\* that same file.
C22_EveryConventionFileIsListed ==
    landing.kind = "listed" =>
        \A qr_code \in QrCodes :
            construct_output_file(qr_code) \in landing.dir
                => (Listed(qr_code)
                      /\ sensor_file(qr_code) = construct_output_file(qr_code))

\* What does hold: the file of an identifier without a hyphen is listed
\* under that identifier, every listed identifier is split('-')[1] of a
\* file of the directory, and opening a listed entry opens the file that
\* the fetcher writes for the listed identifier.
C22_FilesOfHyphenFreeIdsAreListed ==
    /\ landing.kind = "listed" =>
          /\ \A qr_code \in QrCodes :
                (Len(qr_code) = 1 /\ construct_output_file(qr_code) \in landing.dir)
                    => Listed(qr_code)
          /\ \A i \in 1..Len(landing.sensors) :
                \E f \in landing.dir :
                    IsSensorFile(f) /\ landing.sensors[i] = split_1(f)
    /\ opened.kind # "none" =>
          /\ opened.kind = "file"
          /\ opened.name = construct_output_file(landing.sensors[opened.entry])

\* The pages of the sensor one after the other
RECURSIVE LogsOfPages(_, _)
LogsOfPages(api, n) ==
    IF n = 0 THEN << >> ELSE LogsOfPages(api, n - 1) \o api[n]

\* C23: when fetch_sensor_data leaves its loop because a response carries
\* no next page, it has requested the pages 1, 2, ... of the sensor, each
\* once and in this order, all_logs holds the logs of every page in page
\* order, each once, and the CSV it saved holds exactly these rows in this
\* order (it saves a CSV unless there is no log at all).
C23_AllPagesInPageOrder ==
    (fetch.pc = "done" /\ fetch.ended = "no_next_page") =>
        /\ fetch.requested = [p \in 1..Len(fetch.api) |-> p]
        /\ fetch.all_logs = LogsOfPages(fetch.api, Len(fetch.api))
        /\ fetch.saved = (fetch.all_logs # << >>)
        /\ fetch.saved =>
              /\ fetch.csv.rows = LogsOfPages(fetch.api, Len(fetch.api))
              /\ construct_output_file(fetch.qr_code) \in data_files

\* C23's loop ends: a run that is not ended by an exception or an error
\* status ends with the response of the last page.
C23_EndsAtTheLastPage ==
    [][(fetch.pc = "loop" /\ fetch'.pc = "done" /\ fetch'.ended = "no_next_page")
          => fetch.page = Len(fetch.api)]_vars

\* A sensor of three pages, the second of them empty, was fetched and saved
C23_Witness ==
    /\ fetch.pc = "done"
    /\ fetch.ended = "no_next_page"
    /\ Len(fetch.api) = 3
    /\ Len(fetch.api[1]) = 2 /\ fetch.api[2] = << >> /\ Len(fetch.api[3]) = 1
    /\ fetch.saved
    /\ fetch.csv.rows = <<<<1, 1>>, <<1, 2>>, <<3, 1>>>>

====
